---- MODULE Spec2Model ----
(***************************************************************************)
(* A model of the AfricaESG backend (src/main.py): the numeric and invoice *)
(* normalizers, the invoice extractor, the insight resolver and the live   *)
(* WebSocket manager.                                                      *)
(*                                                                         *)
(* Python values are tagged records ([k |-> "float", h |-> n], ...); a     *)
(* float is held in hundredths (h = 100 * value); a dict is a function     *)
(* whose DOMAIN is its key set; a str that the code inspects character by  *)
(* character is a sequence of one-character strings.                       *)
(***************************************************************************)
EXTENDS Integers, Sequences, FiniteSets, TLC

VARIABLES
    clock,      \* the wall clock read by now_iso() / datetime.now()
    nIn,        \* normalizer: the record first handed to _normalize_invoice
    nRec,       \* normalizer: the result of the latest pass
    nPrev,      \* normalizer: the result of the pass before the latest
    nPass,      \* normalizer: number of passes made
    nFirstT,    \* normalizer: clock read for created_at by the first pass
    nLastT,     \* normalizer: clock read for updated_at by the latest pass
    sfIn,       \* _safe_float: the argument of the latest call
    sfOut,      \* _safe_float: what the latest call returned
    active,     \* LiveAIManager.active_connections, a list of channels
    wsPc,       \* websocket_live_ai: where each channel's handler stands
    bPc,        \* broadcast: where each broadcast call stands
    bIdx,       \* broadcast: the list iterator's index (items consumed)
    bCur,       \* broadcast: the channel whose send_json is awaited
    bDead,      \* broadcast: the local list dead
    bStart,     \* history: active_connections when the call began
    bTried,     \* history: the channels send_json was called on, in order
    bGone,      \* history: channels removed by someone else during the call
    bRet,       \* history: active_connections when the call returned
    cfgClient,  \* openai_client is not None
    cfgKey,     \* OPENAI_API_KEY is set
    iPc,        \* insight endpoint: where the request stands
    iType,      \* insight endpoint: which of the four endpoints was called
    iPayload,   \* insight endpoint: the request body
    iCalls,     \* history: chat.completions.create calls made for the request
    iReplies,   \* history: what the provider answered, in order
    iResp,      \* insight endpoint: the response
    pdfLib,     \* PdfReader is not None (pypdf could be imported)
    exIn,       \* extractor: the arguments of the latest call
    exOut,      \* extractor: what the latest call returned, Raised if it raised
    store,      \* the documents of mongo_collection, in natural order
    stLog,      \* history: the writes made through mongo_upsert_invoice
    mongoOn,    \* mongo_collection is not None
    invs,       \* last_invoice_summaries
    disk,       \* the content of the file at LAST_INVOICES_JSON_PATH
    esg,        \* last_esg_input
    diskEsg,    \* the content of the file at LAST_ESG_JSON_PATH
    nReq,       \* history: the number of requests taken so far
    rKind,      \* request handler: which endpoint was called
    rPc,        \* request handler: the await it is suspended in
    rIn,        \* request handler: the files or records of the request
    rIdx,       \* request handler: the position of its loop
    rInvoices,  \* request handler: the local list invoices
    rErrors,    \* request handler: the local list errors
    rResp,      \* request handler: the response
    rHist,      \* history: what raised during the request, and whether the
                \* state changed and push_live_update was called since
    wFailed,    \* history: some _safe_write_json call did not write
    snap,       \* the snapshot build_live_snapshot built last
    snapOf,     \* history: last_invoice_summaries when it was built
    hLog,       \* history: what the /ws/live-ai handler of channel 1 received
                \* and sent, in order
    hSnap,      \* /ws/live-ai handler: the snapshot whose send_json is awaited
    qArgs,      \* mongo_query_invoices: the arguments of the call
    qMem,       \* mongo_query_invoices: what the branch without a store returns
    qDb         \* mongo_query_invoices: what the branch with a store returns

normVars == <<nIn, nRec, nPrev, nPass, nFirstT, nLastT>>
sfVars == <<sfIn, sfOut>>
liveVars == <<active, wsPc, bPc, bIdx, bCur, bDead, bStart, bTried, bGone, bRet>>
insVars == <<cfgClient, cfgKey, iPc, iType, iPayload, iCalls, iReplies, iResp>>
exVars == <<pdfLib, exIn, exOut>>
storeVars == <<store, stLog>>
\* the parts added after the extractor
appVars ==
    <<mongoOn, invs, disk, esg, diskEsg, nReq, rKind, rPc, rIn, rIdx, rInvoices,
      rErrors, rResp, rHist, wFailed, snap, snapOf>>
chanVars == <<hLog, hSnap>>
queryVars == <<qArgs, qMem, qDb>>
laterVars == <<storeVars, appVars, chanVars, queryVars>>
vars == <<clock, normVars, sfVars, liveVars, insVars, exVars, laterVars>>

\* what the steps of each part leave alone
restOfNorm == <<sfVars, liveVars, insVars, exVars, laterVars>>
restOfSF == <<clock, normVars, liveVars, insVars, exVars, laterVars>>
restOfLive == <<clock, normVars, sfVars, insVars, exVars, laterVars>>
restOfInsight == <<clock, normVars, sfVars, liveVars, exVars, laterVars>>
restOfExtract == <<normVars, sfVars, liveVars, insVars, laterVars>>
restOfStore ==
    <<normVars, sfVars, liveVars, insVars, exVars, appVars, chanVars, queryVars>>
restOfApp ==
    <<clock, normVars, sfVars, liveVars, insVars, exVars, stLog, chanVars, queryVars>>
restOfChan ==
    <<clock, normVars, sfVars, insVars, exVars, storeVars,
      bPc, bIdx, bCur, bDead, bStart, bTried, bGone, bRet,
      mongoOn, disk, esg, diskEsg, nReq, rKind, rPc, rIn, rIdx, rInvoices,
      rErrors, rResp, rHist, wFailed, snap, snapOf, queryVars>>
restOfQuery ==
    <<clock, normVars, sfVars, liveVars, insVars, exVars, storeVars, chanVars,
      mongoOn, invs, disk, esg, diskEsg, nReq, rKind, rPc, rIn, rIdx, rInvoices,
      rErrors, rResp, rHist, wFailed, snap, snapOf>>

(***************************************************************************)
(* Bounds of the model.                                                    *)
(***************************************************************************)
MaxClock == 2
MaxStrLen == 3
MaxRows == 2
MaxPasses == 2
MaxChannels == 2
MaxBroadcasts == 1

(***************************************************************************)
(* Python values.                                                          *)
(***************************************************************************)
None == [k |-> "none"]
Raised == [k |-> "raised"]
NotCalled == [k |-> "notcalled"]
Float(h) == [k |-> "float", h |-> h]
PyInt(v) == [k |-> "int", v |-> v]
\* an int beyond the range of a float (such as 10**400, which json.loads accepts)
HugeInt == [k |-> "hugeint"]
PyBool(b) == [k |-> "bool", b |-> b]
PyStr(s) == [k |-> "str", s |-> s]
\* a list or dict where a scalar is expected
PyOther == [k |-> "other"]
Time(t) == [k |-> "time", t |-> t]
\* float("inf"), which float() also gives for a digit run beyond its range
Inf == [k |-> "inf"]

IsFloat(x) == x.k = "float"
IsNone(x) == x.k = "none"

EmptyDict == [key \in {} |-> None]
HasKey(d, key) == key \in DOMAIN d
\* d with d[key] = v, the key added when missing
DictSet(d, key, v) == [x \in DOMAIN d \cup {key} |-> IF x = key THEN v ELSE d[x]]

(***************************************************************************)
(* Strings as character sequences.                                         *)
(***************************************************************************)
SFChars == {"1", "2", ",", " ", "x"}
IsDigit(ch) == ch \in {"0", "1", "2", "3", "4", "5", "6", "7", "8", "9"}
IsSpace(ch) == ch \in {" ", "\t"}
DigitVal(ch) ==
    CASE ch = "0" -> 0 [] ch = "1" -> 1 [] ch = "2" -> 2 [] ch = "3" -> 3
      [] ch = "4" -> 4 [] ch = "5" -> 5 [] ch = "6" -> 6 [] ch = "7" -> 7
      [] ch = "8" -> 8 [] OTHER -> 9

StringsUpTo(chars, n) == UNION {[1..m -> chars] : m \in 0..n}

\* str.replace(",", "")
RemoveCommas(s) == SelectSeq(s, LAMBDA ch : ch # ",")

RECURSIVE LStrip(_)
\* str.lstrip()
LStrip(s) == IF s # <<>> /\ IsSpace(Head(s)) THEN LStrip(Tail(s)) ELSE s

RECURSIVE RStrip(_)
\* str.rstrip()
RStrip(s) ==
    IF s # <<>> /\ IsSpace(s[Len(s)]) THEN RStrip(SubSeq(s, 1, Len(s) - 1)) ELSE s

\* str.strip()
Strip(s) == RStrip(LStrip(s))

RECURSIVE DigitsValue(_)
\* the number a run of decimal digits denotes
DigitsValue(s) ==
    IF s = <<>> THEN 0
    ELSE 10 * DigitsValue(SubSeq(s, 1, Len(s) - 1)) + DigitVal(s[Len(s)])

AllDigits(s) == \A i \in 1..Len(s) : IsDigit(s[i])

\* the position of the first "." of s, 0 when there is none
DotAt(s) ==
    IF \E i \in 1..Len(s) : s[i] = "."
    THEN CHOOSE i \in 1..Len(s) : s[i] = "." /\ \A j \in 1..(i - 1) : s[j] # "."
    ELSE 0

\* float(str): surrounding whitespace, an optional sign, digits with an optional
\* decimal point and at least one digit; anything else raises ValueError.  (The
\* exponent, "inf", "nan" and "_" forms are outside the model's alphabets; the
\* value is kept to two decimals.)
ParseFloat(s) ==
    LET t == Strip(s)
        neg == t # <<>> /\ Head(t) = "-"
        u == IF t # <<>> /\ Head(t) \in {"-", "+"} THEN Tail(t) ELSE t
        d == DotAt(u)
        ip == IF d = 0 THEN u ELSE SubSeq(u, 1, d - 1)
        fp == IF d = 0 THEN <<>> ELSE SubSeq(u, d + 1, Len(u))
        mag == 100 * DigitsValue(ip) + DigitsValue(SubSeq(fp \o <<"0", "0">>, 1, 2))
    IN  IF AllDigits(ip) /\ AllDigits(fp) /\ Len(ip) + Len(fp) > 0
        THEN Float(IF neg THEN 0 - mag ELSE mag)
        ELSE Raised

\* float(x) for a value that is not a str
FloatOf(x) ==
    CASE x.k = "float" -> x
      [] x.k = "inf" -> x
      [] x.k = "int" -> Float(100 * x.v)
      [] x.k = "bool" -> Float(IF x.b THEN 100 ELSE 0)
      [] x.k = "hugeint" -> Raised      \* OverflowError
      [] OTHER -> Raised                \* TypeError

\* a variant that never removes the grouping commas
SafeFloatKeepCommas(x) ==
    IF IsNone(x) THEN None
    ELSE LET r == IF x.k = "str" THEN ParseFloat(Strip(x.s)) ELSE FloatOf(x)
         IN  IF r = Raised THEN None ELSE r

\* _safe_float
SafeFloat(x) ==
    IF IsNone(x) THEN None
    ELSE LET r == IF x.k = "str" THEN ParseFloat(Strip(RemoveCommas(x.s)))
                  ELSE FloatOf(x)
         IN  IF r = Raised THEN None ELSE r

(***************************************************************************)
(* _normalize_invoice.                                                     *)
(***************************************************************************)
NumKeys ==
    {"total_current_charges", "total_amount_due", "total_energy_kwh",
     "water_usage", "water_cost"}
HistKeys ==
    {"energyKWh", "total_current_charges", "total_amount_due",
     "maximum_demand_kva", "carbonTco2e", "water_m3", "water_cost"}

PyDict(d) == [k |-> "dict", d |-> d]
PyList(rows) == [k |-> "list", rows |-> rows]

\* dict(row or {}) followed by the coercion of the row's numeric keys;
\* dict() of a value that is neither None nor a mapping raises
NormalizeRow(row) ==
    CHOOSE rr \in
        {CASE r.k = "none" -> PyDict(EmptyDict)
           [] r.k = "dict" ->
                 PyDict([key \in DOMAIN r.d |->
                           IF key \in HistKeys THEN SafeFloat(r.d[key]) ELSE r.d[key]])
           [] OTHER -> Raised : r \in {row}} : TRUE

\* the sixMonthHistory step: only a list is rewritten
NormalizeHistory(hist) ==
    IF hist.k # "list" THEN hist
    ELSE CHOOSE new_hist \in
            {IF \E i \in 1..Len(rows) : rows[i] = Raised THEN Raised ELSE PyList(rows) :
                rows \in {[i \in 1..Len(hist.rows) |-> NormalizeRow(hist.rows[i])]}} : TRUE

\* a variant that stamps created_at on every pass
CreatedAtAlways(out, t) == DictSet(out, "created_at", Time(t))

\* out.setdefault("created_at", now_iso())
CreatedAtStep(out, t) ==
    IF HasKey(out, "created_at") THEN out ELSE DictSet(out, "created_at", Time(t))

\* a variant that stamps updated_at only when the key is missing
UpdatedAtOnce(out, t) ==
    IF HasKey(out, "updated_at") THEN out ELSE DictSet(out, "updated_at", Time(t))

\* out["updated_at"] = now_iso()
UpdatedAtStep(out, t) == DictSet(out, "updated_at", Time(t))

\* _normalize_invoice(inv), now_iso() reading t1 and then t2
NormalizeInvoice(inv, t1, t2) ==
    CHOOSE res \in
        {IF hist = Raised THEN Raised
         ELSE CHOOSE stamped \in
                {UpdatedAtStep(created, t2) :
                    created \in
                        {CreatedAtStep(out, t1) :
                            out \in {IF HasKey(nums, "sixMonthHistory")
                                     THEN [nums EXCEPT !["sixMonthHistory"] = hist]
                                     ELSE nums}}} : TRUE :
            nums \in {[key \in DOMAIN inv |->
                        IF key \in NumKeys THEN SafeFloat(inv[key]) ELSE inv[key]]},
            hist \in {IF HasKey(inv, "sixMonthHistory")
                      THEN NormalizeHistory(inv["sixMonthHistory"]) ELSE None}} : TRUE

(***************************************************************************)
(* The insight resolver: the text cleaning, the generators and the static  *)
(* fallbacks.  A provider text for a pillar is the sequence of its lines   *)
(* (what splitlines() yields), each a sequence of characters.              *)
(***************************************************************************)
MaxRecs == 6
MaxBaselineKeys == 8
RenewableThreshold == 20

\* the character class [\-\*\d\.\)\s]
IsMarker(ch) == ch \in {"-", "*", ".", ")"} \/ IsDigit(ch) \/ IsSpace(ch)

RECURSIVE DropMarkers(_)
\* re.sub(r"^[\-\*\d\.\)\s]+", "", ln)
DropMarkers(ln) ==
    IF ln # <<>> /\ IsMarker(Head(ln)) THEN DropMarkers(Tail(ln)) ELSE ln

RECURSIVE Dedup(_, _)
\* the seen/out loop: empty lines and lines already seen are dropped
Dedup(lines, seen) ==
    IF lines = <<>> THEN <<>>
    ELSE IF Head(lines) = <<>> \/ Head(lines) \in seen THEN Dedup(Tail(lines), seen)
    ELSE <<Head(lines)>> \o Dedup(Tail(lines), seen \cup {Head(lines)})

\* a variant that keeps a line it has already put out
CleanLinesKeepSeen(text) ==
    LET stripped == [i \in 1..Len(text) |-> Strip(text[i])]
        lines == SelectSeq(stripped, LAMBDA ln : ln # <<>>)
        cleaned == [i \in 1..Len(lines) |-> Strip(DropMarkers(lines[i]))]
    IN  SelectSeq(cleaned, LAMBDA ln : ln # <<>>)

\* _clean_lines_to_list
CleanLinesToList(text) ==
    LET stripped == [i \in 1..Len(text) |-> Strip(text[i])]
        lines == SelectSeq(stripped, LAMBDA ln : ln # <<>>)
        cleaned == [i \in 1..Len(lines) |-> Strip(DropMarkers(lines[i]))]
    IN  Dedup(cleaned, {})

\* what chat.completions.create does: it raises, or it returns a completion
\* whose message content is None or a text
ProviderError == [k |-> "error"]
Content(text) == [k |-> "text", text |-> text]

\* completion.choices[0].message.content or ""
ContentOrEmpty(reply) == IF reply.k = "text" THEN reply.text ELSE <<>>

\* a variant of the generators that does not reject an empty list
PillarGenerateUnchecked(reply) ==
    IF reply.k = "error" THEN Raised
    ELSE PyList(CleanLinesToList(ContentOrEmpty(reply)))

\* generate_ai_{environmental,social,governance}_insights from the provider's
\* answer: its exception propagates; ValueError when the cleaned list is empty
PillarGenerate(reply) ==
    IF reply.k = "error" THEN Raised
    ELSE LET out == CleanLinesToList(ContentOrEmpty(reply))
         IN  IF out = <<>> THEN Raised ELSE PyList(out)

\* the static lists of the three _fallback() closures; each line is held as
\* one token, named by its opening words
EnvironmentalFallback ==
  PyList(
    << <<"Invoice-based energy and water baselines">>,
       <<"Where peak demand is elevated">>,
       <<"Water usage and water cost">>,
       <<"Carbon exposure can be estimated">>,
       <<"Renewable share improvements">> >>)
SocialFallback ==
  PyList(
    << <<"Employee engagement indicators">>,
       <<"Supplier diversity signals progress">>,
       <<"Community programme activity is visible">>,
       <<"Formalise safety and wellbeing leading indicators">>,
       <<"Strengthen human rights screening">> >>)
GovernanceFallback ==
  PyList(
    << <<"Governance controls appear stable">>,
       <<"Board oversight structures support accountability">>,
       <<"Transparency practices can be improved">>,
       <<"Ethics and compliance monitoring">>,
       <<"Risk coverage can be strengthened">> >>)

\* a variant in which every endpoint serves the social list
PillarFallbackCopied(t) == SocialFallback

\* the _fallback() of the endpoint for pillar t
PillarFallback(t) ==
    CASE t = "environmental" -> EnvironmentalFallback
      [] t = "social" -> SocialFallback
      [] OTHER -> GovernanceFallback

(***************************************************************************)
(* The mini report.  A provider text is a sequence of segments:            *)
(*   ws     whitespace                                                     *)
(*   txt    prose without braces                                           *)
(*   obj    a well-formed JSON object, o its content                       *)
(*   val    a JSON value that is no object (an array, a number, null)      *)
(*   open   "{" followed by prose                                          *)
(*   close  prose followed by "}"                                          *)
(* so that a stretch from a "{" to a "}" is well-formed JSON exactly when  *)
(* it is a single obj segment.                                             *)
(***************************************************************************)
SegWs == [seg |-> "ws"]
SegTxt == [seg |-> "txt"]
SegOpen == [seg |-> "open"]
SegClose == [seg |-> "close"]
SegVal == [seg |-> "val"]
SegObj(o) == [seg |-> "obj", o |-> o]

HasOpen(sg) == sg.seg \in {"obj", "open"}
HasClose(sg) == sg.seg \in {"obj", "close"}

\* json.loads(raw): the value, or Raised (JSONDecodeError)
JsonLoads(raw) ==
    LET core == SelectSeq(raw, LAMBDA sg : sg.seg # "ws")
    IN  IF Len(core) = 1 /\ core[1].seg \in {"obj", "val"} THEN core[1] ELSE Raised

\* re.search(r"\{.*\}", raw, flags=re.DOTALL): from the first "{" to the last
\* "}" after it; <<>> (no match) when there is no such pair
BraceSearch(raw) ==
    LET opens == {i \in 1..Len(raw) : HasOpen(raw[i])}
        closes == {j \in 1..Len(raw) : HasClose(raw[j])}
    IN  IF opens = {} THEN <<>>
        ELSE LET i0 == CHOOSE i \in opens : \A i2 \in opens : i <= i2
                 after == {j \in closes : j > i0 \/ (j = i0 /\ raw[i0].seg = "obj")}
             IN  IF after = {} THEN <<>>
                 ELSE LET j1 == CHOOSE j \in after : \A j2 \in after : j2 <= j
                      IN  SubSeq(raw, i0, j1)

\* completion.choices[0].message.content or "{}"
RawOrEmptyObject(reply) ==
    IF reply.k = "text" /\ reply.text # <<>> THEN reply.text ELSE <<SegObj(EmptyDict)>>

\* str(data.get(key, "")).strip()
MiniField(d, key) ==
    IF ~HasKey(d, key) THEN <<>>
    ELSE IF d[key].k = "str" THEN Strip(d[key].s)
    ELSE <<"N", "o", "n", "e">>         \* str(None), for a JSON null

\* the recommendations: a non-list counts as [], each item loses its leading
\* markers, empty items are dropped, at most six are kept
MiniRecs(d) ==
    LET given == IF HasKey(d, "ai_recommendations") /\ d["ai_recommendations"].k = "list"
                 THEN d["ai_recommendations"].rows ELSE <<>>
        cleaned == [i \in 1..Len(given) |-> Strip(DropMarkers(given[i].s))]
        kept == SelectSeq(cleaned, LAMBDA r : r # <<>>)
    IN  SubSeq(kept, 1, IF Len(kept) < MaxRecs THEN Len(kept) ELSE MaxRecs)

\* the last part of generate_ai_mini_report, from the parsed data; data.get of
\* a JSON value that is no object raises AttributeError
MiniBuild(data) ==
    IF data.seg # "obj" THEN Raised
    ELSE PyDict(
         [baseline |-> MiniField(data.o, "baseline"),
          benchmark |-> MiniField(data.o, "benchmark"),
          performance_vs_benchmark |-> MiniField(data.o, "performance_vs_benchmark"),
          ai_recommendations |-> MiniRecs(data.o)])

\* the except branch of generate_ai_mini_report once the second answer is in:
\* the brace-delimited substring parsed, {} when there is none
MiniSecondData(reply) ==
    LET raw == RawOrEmptyObject(reply)
    IN  IF BraceSearch(raw) = <<>> THEN SegObj(EmptyDict) ELSE JsonLoads(BraceSearch(raw))

Pending == [k |-> "pending"]

\* generate_ai_mini_report from the provider's answers so far: Pending when
\* the first attempt failed and the second call is to be made, Raised when
\* an exception leaves the function, else the report
GenerateMiniReport(replies) ==
    LET first == IF replies[1].k = "error" THEN Raised
                 ELSE JsonLoads(RawOrEmptyObject(replies[1]))
        second == IF replies[2].k = "error" THEN Raised
                  ELSE MiniSecondData(replies[2])
    IN  IF first # Raised THEN MiniBuild(first)
        ELSE IF Len(replies) = 1 THEN Pending
        ELSE IF second = Raised THEN Raised
        ELSE MiniBuild(second)

(***************************************************************************)
(* _mini_report_fallback.                                                  *)
(***************************************************************************)
RenewKeys ==
    <<"renewableEnergy", "renewable_energy", "renewableEnergyShare",
      "renewable_energy_share">>

\* the for loop over the four spellings: the value of the first one present
RenewOf(metrics) ==
    IF \E i \in 1..Len(RenewKeys) : HasKey(metrics, RenewKeys[i])
    THEN metrics[RenewKeys[CHOOSE i \in 1..Len(RenewKeys) :
                     /\ HasKey(metrics, RenewKeys[i])
                     /\ \A j \in 1..(i - 1) : ~HasKey(metrics, RenewKeys[j])]]
    ELSE None

\* a variant that leaves the "%" in place
RenewNumberKeepPercent(renew) ==
    CASE renew.k = "str" -> ParseFloat(Strip(renew.s))
      [] renew.k = "int" -> Float(100 * renew.v)
      [] renew.k \in {"float", "inf"} -> renew
      [] renew.k = "hugeint" -> Inf
      [] OTHER -> Raised

\* float(str(renew).replace("%", "").strip()), in hundredths; Raised when
\* float() raises; Inf for an int beyond the float range
RenewNumber(renew) ==
    CASE renew.k = "str" -> ParseFloat(Strip(SelectSeq(renew.s, LAMBDA ch : ch # "%")))
      [] renew.k = "int" -> Float(100 * renew.v)
      [] renew.k \in {"float", "inf"} -> renew
      [] renew.k = "hugeint" -> Inf
      [] OTHER -> Raised        \* str(True), str([..]): not a number

RECURSIVE DigitsOf(_)
\* the decimal digits of a natural number
DigitsOf(n) ==
    IF n < 10 THEN <<CHOOSE ch \in {"0", "1", "2", "3", "4", "5", "6", "7", "8", "9"} :
                        DigitVal(ch) = n>>
    ELSE DigitsOf(n \div 10) \o DigitsOf(n % 10)

\* f"{r:.1f}" of a value held in hundredths; a tie (.x5) goes to the even
\* tenth, which is what the binary value gives for .25 and .75 (the exact
\* ties); the model's inputs hold no other tie
FormatOneDecimal(h) ==
    LET a == IF h < 0 THEN 0 - h ELSE h
        q == a \div 10
        r == a % 10
        tenths == IF r > 5 \/ (r = 5 /\ q % 2 = 1) THEN q + 1 ELSE q
    IN  (IF h < 0 THEN <<"-">> ELSE <<>>)
            \o DigitsOf(tenths \div 10) \o <<".">> \o DigitsOf(tenths % 10)

FallbackRecs ==
    << <<"Confirm monthly baselines from invoices">>,
       <<"Implement demand management and efficiency actions">>,
       <<"Improve water efficiency">>,
       <<"Start a renewable pathway">> >>
PrioritiseRenewable == <<"Prioritise increasing renewable share">>

\* _mini_report_fallback(payload)
MiniReportFallback(payload) ==
    LET keys == payload.invoice_keys
        shown == SubSeq(keys, 1, IF Len(keys) < MaxBaselineKeys THEN Len(keys)
                                 ELSE MaxBaselineKeys)
        renew == RenewOf(payload.metrics)
        r == IF renew = None THEN None ELSE RenewNumber(renew)
        below == IsFloat(r) /\ r.h < 100 * RenewableThreshold
    IN  PyDict(
        [baseline |-> <<"Invoice baseline keys available:">>
                         \o (IF shown = <<>> THEN <<"none">> ELSE shown),
         benchmark |-> <<"Typical peer band (indicative)">>,
         performance_vs_benchmark |->
            IF below
            THEN <<"Renewable share appears below a 20% threshold (current:">>
                    \o FormatOneDecimal(r.h) \o <<"%">>
            ELSE <<"Performance vs benchmark cannot be precisely assessed">>,
         ai_recommendations |->
            IF below THEN <<PrioritiseRenewable>> \o FallbackRecs ELSE FallbackRecs])

(***************************************************************************)
(* The resting state of each part of the model; a specification of one     *)
(* part leaves the others at rest.                                         *)
(***************************************************************************)
Channels == 1..MaxChannels
Broadcasts == 1..MaxBroadcasts
NoChannel == 0

NormIdle ==
    /\ nIn = NotCalled /\ nRec = NotCalled /\ nPrev = NotCalled
    /\ nPass = 0 /\ nFirstT = 0 /\ nLastT = 0

SFIdle == sfIn = NotCalled /\ sfOut = NotCalled

LiveIdle ==
    /\ active = <<>>
    /\ wsPc = [c \in Channels |-> "new"]
    /\ bPc = [b \in Broadcasts |-> "idle"]
    /\ bIdx = [b \in Broadcasts |-> 0]
    /\ bCur = [b \in Broadcasts |-> NoChannel]
    /\ bDead = [b \in Broadcasts |-> <<>>]
    /\ bStart = [b \in Broadcasts |-> <<>>]
    /\ bTried = [b \in Broadcasts |-> <<>>]
    /\ bGone = [b \in Broadcasts |-> {}]
    /\ bRet = [b \in Broadcasts |-> <<>>]

\* no insight request in progress; the provider is not configured
InsightRest ==
    /\ iPc = "idle" /\ iType = "none" /\ iPayload = NotCalled
    /\ iCalls = 0 /\ iReplies = <<>> /\ iResp = NotCalled

InsightIdle == cfgClient = FALSE /\ cfgKey = FALSE /\ InsightRest

ExtractRest == exIn = NotCalled /\ exOut = NotCalled
ExtractIdle == pdfLib = TRUE /\ ExtractRest

StoreIdle == store = <<>> /\ stLog = <<>>

\* the content of a JSON file after json.dump; what a failed dump leaves
Json(data) == [k |-> "json", v |-> data]
Corrupt == [k |-> "corrupt"]

\* nothing raised, nothing changed
NoHist ==
    [read |-> {}, store |-> {}, input |-> FALSE, disk |-> FALSE,
     changed |-> FALSE, pushed |-> FALSE]

AppIdle ==
    /\ mongoOn = FALSE /\ invs = <<>> /\ disk = Json(<<>>)
    /\ esg = NotCalled /\ diskEsg = Json(NotCalled)
    /\ nReq = 0 /\ rKind = "none" /\ rPc = "idle" /\ rIn = <<>> /\ rIdx = 0
    /\ rInvoices = <<>> /\ rErrors = <<>> /\ rResp = NotCalled /\ rHist = NoHist
    /\ wFailed = FALSE /\ snap = NotCalled /\ snapOf = <<>>

\* the parts added after the extractor, at rest
ChanIdle == hLog = <<>> /\ hSnap = NotCalled
QueryIdle == qArgs = NotCalled /\ qMem = NotCalled /\ qDb = NotCalled

LaterIdle == StoreIdle /\ AppIdle /\ ChanIdle /\ QueryIdle

(***************************************************************************)
(* The numeric normalizer on its own: one call of _safe_float per step.    *)
(***************************************************************************)
SFInputs ==
    {None, HugeInt, PyOther, PyBool(TRUE), PyInt(0), PyInt(7), PyInt(-3),
     Float(250), Float(-1)}
        \cup {PyStr(s) : s \in StringsUpTo(SFChars, MaxStrLen)}

InitSF == clock = 0 /\ NormIdle /\ SFIdle /\ LiveIdle /\ InsightIdle /\ ExtractIdle /\ LaterIdle

CallSafeFloat ==
    /\ \E x \in SFInputs : sfIn' = x /\ sfOut' = SafeFloat(x)
    /\ UNCHANGED restOfSF

NextSF == CallSafeFloat

SpecSF == InitSF /\ [][NextSF]_vars

(***************************************************************************)
(* The invoice normalizer: repeated passes over one record.                *)
(***************************************************************************)
GroupedStr == PyStr(<<"1", ",", "2">>)
GarbageStr == PyStr(<<"x">>)
NormVals == {None, PyInt(5), Float(250), GroupedStr, GarbageStr, HugeInt, PyOther}

HistRows ==
    {None,
     PyDict(EmptyDict),
     PyDict([key \in {"energyKWh"} |-> GroupedStr]),
     PyDict([key \in {"month_label", "carbonTco2e"} |->
                IF key = "month_label" THEN PyStr(<<"J">>) ELSE GarbageStr]),
     GarbageStr}

\* the numeric part of a record: no numeric key, one of them, or all five
NumericParts ==
    {EmptyDict}
        \cup {[key \in {nk} |-> v] : nk \in NumKeys, v \in NormVals}
        \cup {[key \in NumKeys |->
                  CASE key = "total_current_charges" -> GroupedStr
                    [] key = "total_amount_due" -> GarbageStr
                    [] key = "total_energy_kwh" -> PyInt(5)
                    [] key = "water_usage" -> None
                    [] OTHER -> HugeInt]}

HistoryParts ==
    {EmptyDict, [key \in {"sixMonthHistory"} |-> GarbageStr]}
        \cup {[key \in {"sixMonthHistory"} |-> PyList(rows)] :
                 rows \in UNION {[1..m -> HistRows] : m \in 0..MaxRows}}

StampParts ==
    {EmptyDict,
     [key \in {"created_at"} |-> Time(0)],
     [key \in {"created_at"} |-> None],
     [key \in {"created_at", "updated_at"} |-> Time(0)]}

InvoiceInputs ==
    {a @@ b @@ c : a \in NumericParts, b \in HistoryParts, c \in StampParts}

InitNorm ==
    /\ clock = 0
    /\ nIn \in InvoiceInputs
    /\ nRec = NotCalled /\ nPrev = NotCalled
    /\ nPass = 0 /\ nFirstT = 0 /\ nLastT = 0
    /\ SFIdle /\ LiveIdle /\ InsightIdle /\ ExtractIdle /\ LaterIdle

\* one call of _normalize_invoice on the result of the previous one (on the
\* input for the first); the clock may advance before each reading of now_iso()
NormalizePass ==
    /\ nPass < MaxPasses
    /\ nRec # Raised
    /\ \E d1, d2 \in {0, 1} :
          LET t1 == clock + d1
              t2 == t1 + d2
              arg == IF nPass = 0 THEN nIn ELSE nRec
          IN  /\ t2 <= MaxClock
              /\ nRec' = NormalizeInvoice(arg, t1, t2)
              /\ nPrev' = nRec
              /\ nPass' = nPass + 1
              /\ nFirstT' = IF nPass = 0 THEN t1 ELSE nFirstT
              /\ nLastT' = t2
              /\ clock' = t2
    /\ UNCHANGED <<nIn, restOfNorm>>

NextNorm == NormalizePass

SpecNorm == InitNorm /\ [][NextNorm]_vars

(***************************************************************************)
(* LiveAIManager and the /ws/live-ai handler.                              *)
(*                                                                         *)
(* Every await is a point where another task may run.  A broadcast call    *)
(* is suspended in "await ws.send_json(message)"; a channel's handler is   *)
(* suspended in accept, send_json or receive_text.                         *)
(***************************************************************************)
Range(seq) == {seq[i] : i \in 1..Len(seq)}

RECURSIVE RemoveFirst(_, _)
\* list.remove(x) of a list that holds x
RemoveFirst(seq, x) ==
    IF seq = <<>> THEN <<>>
    ELSE IF Head(seq) = x THEN Tail(seq)
    ELSE <<Head(seq)>> \o RemoveFirst(Tail(seq), x)

\* LiveAIManager.disconnect: remove, the ValueError of a missing item swallowed
Disconnect(list, ws) == IF ws \in Range(list) THEN RemoveFirst(list, ws) ELSE list

\* a variant of the eviction loop that stops after the first dead channel
EvictFirstDead(list, dead) == IF dead = <<>> THEN list ELSE Disconnect(list, Head(dead))

RECURSIVE EvictDead(_, _)
\* for ws in dead: self.disconnect(ws)
EvictDead(list, dead) ==
    IF dead = <<>> THEN list ELSE EvictDead(Disconnect(list, Head(dead)), Tail(dead))

\* the text messages a client may send
WsMessages ==
    {<<"p", "i", "n", "g">>, <<" ", "P", "i", "N", "G", " ">>,
     <<"r", "e", "f", "r", "e", "s", "h">>, <<"R", "E", "F", "R", "E", "S", "H", "\t">>,
     <<"p", "i", "n", "g", "s">>, <<"h", "i">>, <<>>}

\* str.lower() on one character
LowerChar(ch) ==
    CASE ch = "P" -> "p" [] ch = "I" -> "i" [] ch = "N" -> "n" [] ch = "G" -> "g"
      [] ch = "R" -> "r" [] ch = "E" -> "e" [] ch = "F" -> "f" [] ch = "S" -> "s"
      [] ch = "H" -> "h" [] OTHER -> ch
Lower(s) == [i \in 1..Len(s) |-> LowerChar(s[i])]

\* a variant of the test that compares the message as it came
IsSnapshotRequestExact(msg) ==
    msg \in {<<"r", "e", "f", "r", "e", "s", "h">>, <<"p", "i", "n", "g">>}

\* msg.strip().lower() in ("refresh", "ping")
IsSnapshotRequest(msg) ==
    Lower(Strip(msg)) \in {<<"r", "e", "f", "r", "e", "s", "h">>, <<"p", "i", "n", "g">>}

InitLive == clock = 0 /\ NormIdle /\ SFIdle /\ LiveIdle /\ InsightIdle /\ ExtractIdle /\ LaterIdle

\* the channels that leave the list when it changes from old to new are noted
\* by every broadcast call in progress other than skip
NoteGone(old, new, skip) ==
    [b \in Broadcasts |->
        IF b # skip /\ bPc[b] = "sending"
        THEN bGone[b] \cup (Range(old) \ Range(new)) ELSE bGone[b]]

\* a handler leaving through one of its except clauses: disconnect(websocket)
HandlerDisconnect(c) ==
    /\ active' = Disconnect(active, c)
    /\ wsPc' = [wsPc EXCEPT ![c] = "done"]
    /\ bGone' = NoteGone(active, Disconnect(active, c), 0)

\* LiveAIManager.connect: accept, then append
WsConnect(c) ==
    /\ wsPc[c] = "new"
    /\ active' = Append(active, c)
    /\ wsPc' = [wsPc EXCEPT ![c] = "open"]
    /\ UNCHANGED <<bPc, bIdx, bCur, bDead, bStart, bTried, bGone, bRet>>
    /\ UNCHANGED restOfLive

\* an awaited send_json or receive_text of the handler raises
\* (WebSocketDisconnect or another error): the except clauses disconnect
WsClosed(c) ==
    /\ wsPc[c] = "open"
    /\ HandlerDisconnect(c)
    /\ UNCHANGED <<bPc, bIdx, bCur, bDead, bStart, bTried, bRet>>
    /\ UNCHANGED restOfLive

\* push_live_update with no subscriber returns at once; otherwise broadcast
\* starts: dead = [], the iterator yields the first channel and send_json
\* is awaited
BroadcastStart(b) ==
    /\ bPc[b] = "idle"
    /\ \A b2 \in Broadcasts : b2 < b => bPc[b2] # "idle"
    /\ bStart' = [bStart EXCEPT ![b] = active]
    /\ bGone' = [bGone EXCEPT ![b] = {}]
    /\ IF active = <<>>
       THEN /\ bPc' = [bPc EXCEPT ![b] = "done"]
            /\ UNCHANGED <<bIdx, bCur>>
       ELSE /\ bPc' = [bPc EXCEPT ![b] = "sending"]
            /\ bIdx' = [bIdx EXCEPT ![b] = 1]
            /\ bCur' = [bCur EXCEPT ![b] = active[1]]
    /\ bRet' = [bRet EXCEPT ![b] = active]
    /\ UNCHANGED <<active, wsPc, bDead, bTried>>
    /\ UNCHANGED restOfLive

\* a variant of the loop that walks a copy of the list taken at the start of
\* the call and disconnects a channel as soon as its send raises
BroadcastStepEager(b) ==
    /\ bPc[b] = "sending"
    /\ \E ok \in BOOLEAN :
          LET dead == IF ok THEN bDead[b] ELSE Append(bDead[b], bCur[b])
              now == IF ok THEN active ELSE Disconnect(active, bCur[b])
          IN  /\ bTried' = [bTried EXCEPT ![b] = Append(@, bCur[b])]
              /\ bDead' = [bDead EXCEPT ![b] = dead]
              /\ active' = now
              /\ bGone' = NoteGone(active, now, b)
              /\ IF bIdx[b] < Len(bStart[b])
                 THEN /\ bCur' = [bCur EXCEPT ![b] = bStart[b][bIdx[b] + 1]]
                      /\ bIdx' = [bIdx EXCEPT ![b] = @ + 1]
                      /\ UNCHANGED <<bPc, bRet>>
                 ELSE /\ bPc' = [bPc EXCEPT ![b] = "done"]
                      /\ bCur' = [bCur EXCEPT ![b] = NoChannel]
                      /\ bRet' = [bRet EXCEPT ![b] = now]
                      /\ UNCHANGED bIdx
    /\ UNCHANGED <<wsPc, bStart>>
    /\ UNCHANGED restOfLive

\* the awaited send_json returns (ok) or raises; the loop then takes the next
\* channel of the list as it now is, or, the iterator exhausted, evicts the
\* dead channels and returns
BroadcastStep(b) ==
    /\ bPc[b] = "sending"
    /\ \E ok \in BOOLEAN :
          LET dead == IF ok THEN bDead[b] ELSE Append(bDead[b], bCur[b])
              left == EvictDead(active, dead)
          IN  /\ bTried' = [bTried EXCEPT ![b] = Append(@, bCur[b])]
              /\ bDead' = [bDead EXCEPT ![b] = dead]
              /\ IF bIdx[b] < Len(active)
                 THEN /\ bCur' = [bCur EXCEPT ![b] = active[bIdx[b] + 1]]
                      /\ bIdx' = [bIdx EXCEPT ![b] = @ + 1]
                      /\ UNCHANGED <<active, bPc, bGone, bRet>>
                 ELSE /\ active' = left
                      /\ bPc' = [bPc EXCEPT ![b] = "done"]
                      /\ bCur' = [bCur EXCEPT ![b] = NoChannel]
                      /\ bGone' = NoteGone(active, left, b)
                      /\ bRet' = [bRet EXCEPT ![b] = left]
                      /\ UNCHANGED bIdx
    /\ UNCHANGED <<wsPc, bStart>>
    /\ UNCHANGED restOfLive

NextLive ==
    \/ \E c \in Channels : WsConnect(c)
    \/ \E c \in Channels : WsClosed(c)
    \/ \E b \in Broadcasts : BroadcastStart(b)
    \/ \E b \in Broadcasts : BroadcastStep(b)

SpecLive == InitLive /\ [][NextLive]_vars

(***************************************************************************)
(* The four insight endpoints.  A request is taken, the provider is called *)
(* (once, or twice for a mini report whose first answer does not parse),   *)
(* and the response is built.  push_live_update() returns at once here:    *)
(* no channel is connected in this specification.                          *)
(***************************************************************************)
MaxLines == 2
MaxSegs == 2

ReportTypes == {"environmental", "social", "governance", "mini"}

\* openai_client and OPENAI_API_KEY: the test of the endpoints, and the test
\* each generator repeats on entry
ProviderConfigured == cfgClient /\ cfgKey

\* the generator of endpoint t, from the provider's answers so far
Generate(t, replies) ==
    IF t = "mini" THEN GenerateMiniReport(replies) ELSE PillarGenerate(replies[1])

\* the fallback of endpoint t
Fallback(t, payload) ==
    IF t = "mini" THEN MiniReportFallback(payload) ELSE PillarFallback(t)

\* the try/except of an endpoint, from what its generator gave
HandlerResponse(t, payload, result) ==
    IF result = Raised
    THEN [content |-> Fallback(t, payload), live |-> FALSE]
    ELSE [content |-> IF t # "mini" /\ result.rows = <<>>     \* generate(..) or _fallback()
                      THEN PillarFallback(t) ELSE result,
          live |-> TRUE]

\* the else branch of an endpoint
HandlerUnconfigured(t, payload) == [content |-> Fallback(t, payload), live |-> FALSE]

SampleLines ==
    {<<>>, <<" ">>, <<"A">>, <<"-", " ", "A">>, <<"1", ".", "B", " ">>, <<"-">>,
     <<"A", ".", "1">>}
\* a text of eight different lines
EightLines ==
    <<<<"a">>, <<"b">>, <<"c">>, <<"d">>, <<"e">>, <<"f">>, <<"g">>, <<"h">>>>
PillarTexts == UNION {[1..n -> SampleLines] : n \in 0..MaxLines} \cup {EightLines}

ObjEmpty == EmptyDict
ObjFull ==
    [key \in {"baseline", "benchmark", "performance_vs_benchmark", "ai_recommendations"} |->
        CASE key = "baseline" -> PyStr(<<" ", "B">>)
          [] key = "benchmark" -> PyStr(<<"K">>)
          [] key = "performance_vs_benchmark" -> PyStr(<<"P", " ">>)
          [] OTHER -> PyList(<<PyStr(<<"1", ".", " ", "R">>), PyStr(<<"-", "S">>),
                               PyStr(<<" ">>), PyStr(<<"T">>)>>)]
ObjSeven ==
    [key \in {"ai_recommendations"} |->
        PyList(<<PyStr(<<"a">>), PyStr(<<"b">>), PyStr(<<"c">>), PyStr(<<"d">>),
                 PyStr(<<"e">>), PyStr(<<"f">>), PyStr(<<"g">>)>>)]
ObjNoList ==
    [key \in {"baseline", "ai_recommendations"} |->
        IF key = "baseline" THEN None ELSE PyStr(<<"R">>)]

SeqSegs == {SegWs, SegTxt, SegOpen, SegClose, SegObj(ObjFull)}
MiniTexts ==
    UNION {[1..n -> SeqSegs] : n \in 0..MaxSegs}
        \cup {<<SegVal>>, <<SegObj(ObjEmpty)>>, <<SegObj(ObjSeven)>>, <<SegObj(ObjNoList)>>}

Replies(t) ==
    {ProviderError, None} \cup {Content(x) : x \in IF t = "mini" THEN MiniTexts ELSE PillarTexts}

NineKeys == <<"k1", "k2", "k3", "k4", "k5", "k6", "k7", "k8", "k9">>
Metrics ==
    {EmptyDict,
     [key \in {"renewableEnergy"} |-> PyStr(<<"1", "5", "%">>)],
     [key \in {"renewableEnergy"} |-> HugeInt],
     [key \in {"renewableEnergy"} |-> None],
     [key \in {"renewable_energy"} |-> PyInt(25)],
     [key \in {"renewableEnergyShare"} |-> PyBool(TRUE)],
     [key \in {"renewable_energy_share"} |-> Float(1925)],
     [key \in {"renewable_energy_share"} |-> PyStr(<<" ", "2", "0", "%">>)],
     [key \in {"renewableEnergy", "renewable_energy"} |->
        IF key = "renewableEnergy" THEN PyStr(<<"x">>) ELSE PyInt(5)]}
Payloads ==
    {[metrics |-> m, invoice_keys |-> <<>>] : m \in Metrics}
        \cup {[metrics |-> EmptyDict, invoice_keys |-> ks] : ks \in {<<"k1">>, NineKeys}}

InitInsight ==
    /\ clock = 0
    /\ NormIdle /\ SFIdle /\ LiveIdle /\ ExtractIdle /\ LaterIdle
    /\ \E library, key \in BOOLEAN :
            /\ cfgKey = key
            /\ cfgClient = (library /\ key)     \* if OpenAI and OPENAI_API_KEY
    /\ InsightRest

\* an endpoint is called; without a configured provider it answers at once
InsightRequest(t, payload) ==
    /\ iPc = "idle"
    /\ iType' = t
    /\ iPayload' = payload
    /\ iCalls' = 0
    /\ iReplies' = <<>>
    /\ IF ProviderConfigured
       THEN iPc' = "calling" /\ iResp' = NotCalled
       ELSE iPc' = "done" /\ iResp' = HandlerUnconfigured(t, payload)
    /\ UNCHANGED <<cfgClient, cfgKey, restOfInsight>>

\* chat.completions.create is called and answers; the generator goes on to
\* its second call, or the endpoint builds its response
ProviderAnswers(reply) ==
    /\ iPc = "calling"
    /\ iCalls' = iCalls + 1
    /\ iReplies' = Append(iReplies, reply)
    /\ LET result == Generate(iType, iReplies')
       IN  IF result = Pending
           THEN UNCHANGED <<iPc, iResp>>
           ELSE iPc' = "done" /\ iResp' = HandlerResponse(iType, iPayload, result)
    /\ UNCHANGED <<cfgClient, cfgKey, iType, iPayload, restOfInsight>>

\* the response has been sent
InsightReturn ==
    /\ iPc = "done"
    /\ iPc' = "idle"
    /\ iType' = "none"
    /\ iPayload' = NotCalled
    /\ iCalls' = 0
    /\ iReplies' = <<>>
    /\ iResp' = NotCalled
    /\ UNCHANGED <<cfgClient, cfgKey, restOfInsight>>

NextInsight ==
    \/ \E t \in ReportTypes, payload \in Payloads : InsightRequest(t, payload)
    \/ \E reply \in Replies(iType) : ProviderAnswers(reply)
    \/ InsightReturn

SpecInsight == InitInsight /\ [][NextInsight]_vars

(***************************************************************************)
(* extract_invoice_data_from_pdf.  The bytes handed to it are described by *)
(* what pypdf makes of them (the reader raises, or gives pages whose       *)
(* extract_text() raises, returns None or returns text) and by what the    *)
(* regular-expression searches find in the text of the pages.  The clock   *)
(* counts seconds from 2024-12-31 23:59:59.                                *)
(***************************************************************************)
MaxPages == 2

NoMatch == [k |-> "nomatch"]
Group(s) == [k |-> "group", s |-> s]
\* a matched run of digits too long for the range of a float
HugeGroup == [k |-> "hugegroup"]

\* float(match.group(1).replace(",", "")) if match else default
GroupFloat(m, default) ==
    CASE m.k = "nomatch" -> Float(default)
      [] m.k = "hugegroup" -> Inf
      [] OTHER -> ParseFloat(RemoveCommas(m.s))

\* a / b to the nearest integer, for a >= 0 and b > 0
RoundDiv(a, b) == (2 * a + b) \div (2 * b)

\* round(x / 6 * (0.9 + i * 0.05), 2), to the nearest hundredth
MonthShare(x, i) ==
    IF x.k = "inf" THEN x ELSE Float(RoundDiv(x.h * (18 + i), 120))

\* round(month_energy * 0.99 / 1000, 2), to the nearest hundredth
MonthCarbon(x, i) ==
    IF x.k = "inf" THEN x ELSE Float(RoundDiv(MonthShare(x, i).h * 99, 100000))

Months == <<"Jan", "Feb", "Mar", "Apr", "May", "Jun">>

\* the six appended rows of the success path
SyntheticHistory(energy, charges, water, waterCost) ==
    PyList([n \in 1..Len(Months) |->
        PyDict([month_label |-> PyStr(<<Months[n], " 2024">>),
                energyKWh |-> MonthShare(energy, n - 1),
                total_current_charges |-> MonthShare(charges, n - 1),
                total_amount_due |-> MonthShare(charges, n - 1),
                carbonTco2e |-> MonthCarbon(energy, n - 1),
                water_m3 |-> MonthShare(water, n - 1),
                water_cost |-> MonthShare(waterCost, n - 1)])])

\* the six equal rows of the except branch
FallbackHistory ==
    PyList([n \in 1..Len(Months) |->
        PyDict([month_label |-> PyStr(<<Months[n], " 2024">>),
                energyKWh |-> Float(1666667),
                total_current_charges |-> Float(2500000),
                total_amount_due |-> Float(2500000),
                carbonTco2e |-> Float(1650),
                water_m3 |-> Float(166667),
                water_cost |-> Float(833333)])])

TwoDigits(n) == DigitsOf(n \div 10) \o DigitsOf(n % 10)

\* datetime.now().strftime("%Y%m%d")
StrfDate(t) ==
    IF t = 0 THEN <<"2", "0", "2", "4", "1", "2", "3", "1">>
    ELSE <<"2", "0", "2", "5", "0", "1", "0", "1">>

\* datetime.now().strftime("%H%M%S")
StrfClock(t) ==
    IF t = 0 THEN <<"2", "3", "5", "9", "5", "9">>
    ELSE <<"0", "0", "0", "0">> \o TwoDigits(t - 1)

\* datetime.now().strftime("%Y-%m-%d")
InvoiceDate(t) == IF t = 0 THEN <<"2024-12-31">> ELSE <<"2025-01-01">>

\* (datetime.now() + timedelta(days=30)).strftime("%Y-%m-%d")
DueDate(t) == IF t = 0 THEN <<"2025-01-30">> ELSE <<"2025-01-31">>

\* a variant that numbers every account alike
AccountNumberFixed(t) == <<"A", "C", "C", "-", "F", "A", "L", "L", "B", "A", "C", "K">>

\* f"ACC-{datetime.now().strftime('%Y%m%d')}"
AccountNumber(t) == <<"A", "C", "C", "-">> \o StrfDate(t)

\* f"INV-{datetime.now().strftime('%Y%m%d-%H%M%S')}"
TaxInvoiceNumber(t) == <<"I", "N", "V", "-">> \o StrfDate(t) \o <<"-">> \o StrfClock(t)

UpperChar(ch) ==
    CASE ch = "a" -> "A" [] ch = "b" -> "B" [] ch = "p" -> "P" [] ch = "d" -> "D"
      [] ch = "f" -> "F" [] OTHER -> ch
DownChar(ch) ==
    CASE ch = "A" -> "a" [] ch = "B" -> "b" [] ch = "P" -> "p" [] ch = "D" -> "d"
      [] ch = "F" -> "f" [] OTHER -> ch
IsLetter(ch) == UpperChar(ch) # ch \/ DownChar(ch) # ch

\* re.sub(r"\.pdf$", "", filename, flags=re.IGNORECASE)
DropPdfSuffix(name) ==
    IF Len(name) >= 4
        /\ [i \in 1..4 |-> DownChar(name[Len(name) - 4 + i])] = <<".", "p", "d", "f">>
    THEN SubSeq(name, 1, Len(name) - 4) ELSE name

\* str.title(): a letter after a letter is lowered, any other letter is raised
Title(s) ==
    [i \in 1..Len(s) |->
        IF i > 1 /\ IsLetter(s[i - 1]) THEN DownChar(s[i]) ELSE UpperChar(s[i])]

\* the company name taken from the file name
NameFromFilename(filename) ==
    LET base == DropPdfSuffix(filename)
    IN  Title([i \in 1..Len(base) |-> IF base[i] \in {"_", "-"} THEN " " ELSE base[i]])

\* text is not "": some page gave text
HasText(doc) ==
    doc.reader = "ok" /\ \E i \in 1..Len(doc.pages) : doc.pages[i] = "text"

\* a search in the text of the document
Found(doc, what) == IF HasText(doc) THEN doc[what] ELSE NoMatch

\* where the body of the try first raises: at the capability test, in
\* PdfReader(...), in a page's extract_text(), in a float(...); "none" if nowhere
RaisedAt(lib, doc) ==
    IF ~lib THEN "import"
    ELSE IF doc.reader = "raises" THEN "reader"
    ELSE IF \E i \in 1..Len(doc.pages) : doc.pages[i] = "raises" THEN "page"
    ELSE IF \E what \in {"energy", "water", "charges", "water_cost"} :
                GroupFloat(Found(doc, what), 0) = Raised THEN "float"
    ELSE "none"

\* a variant whose except clause names ImportError only
ExceptImportErrorOnly(at) == at = "import"

\* except Exception: every exception of the body is caught
ExceptCatches(at) == at \in {"import", "reader", "page", "float"}

\* the dict handed to _normalize_invoice on the success path
SuccessRecord(filename, company, energy, water, charges, waterCost, t) ==
    [filename |-> PyStr(filename),
     company_name |-> PyStr(company),
     account_number |-> PyStr(AccountNumber(t)),
     tax_invoice_number |-> PyStr(TaxInvoiceNumber(t)),
     invoice_date |-> PyStr(InvoiceDate(t)),
     due_date |-> PyStr(DueDate(t)),
     total_current_charges |-> charges,
     total_amount_due |-> charges,
     total_energy_kwh |-> energy,
     water_usage |-> water,
     water_cost |-> waterCost,
     categories |-> PyList(<<PyStr(<<"Industrial">>), PyStr(<<"Manufacturing">>)>>),
     sixMonthHistory |-> SyntheticHistory(energy, charges, water, waterCost)]

\* the company name: the one found in the text, else the one from the file name
CompanyName(doc, filename) ==
    IF Found(doc, "company") = NoMatch THEN NameFromFilename(filename)
    ELSE Found(doc, "company").s

\* the success path: the name and the four amounts (each the number found, else
\* its default), then the record
ExtractedRecord(doc, filename, t) ==
    CHOOSE rec \in
        {SuccessRecord(filename, company, energy, water, charges, waterCost, t) :
            company \in {CompanyName(doc, filename)},
            energy \in {GroupFloat(Found(doc, "energy"), 12500000)},
            water \in {GroupFloat(Found(doc, "water"), 1250000)},
            charges \in {GroupFloat(Found(doc, "charges"), 18500050)},
            waterCost \in {GroupFloat(Found(doc, "water_cost"), 7500000)}} : TRUE

\* the record of the except branch, before _normalize_invoice
FallbackRecord(filename, t) ==
    [filename |-> PyStr(filename),
     company_name |-> PyStr(<<"Extracted Company">>),
     account_number |-> PyStr(<<"A", "C", "C", "-", "F", "A", "L", "L", "B", "A", "C", "K">>),
     tax_invoice_number |-> PyStr(<<"I", "N", "V", "-", "F", "A", "L", "L", "B", "A", "C", "K">>),
     invoice_date |-> PyStr(InvoiceDate(t)),
     due_date |-> PyStr(DueDate(t)),
     total_current_charges |-> Float(15000000),
     total_amount_due |-> Float(15000000),
     total_energy_kwh |-> Float(10000000),
     water_usage |-> Float(1000000),
     water_cost |-> Float(5000000),
     categories |-> PyList(<<PyStr(<<"Extracted">>)>>),
     sixMonthHistory |-> FallbackHistory]

\* _normalize_invoice as the extractor calls it (the record is bound as a
\* value before it is normalized)
Normalized(inv, t) ==
    CHOOSE out \in {IF NormalizeInvoice(v, t, t) = Raised THEN Raised
                    ELSE PyDict(NormalizeInvoice(v, t, t)) : v \in {inv}} : TRUE

\* extract_invoice_data_from_pdf(file_content, filename): the clock reads t in
\* the body and tn in _normalize_invoice
ExtractInvoiceDataFromPdf(lib, doc, filename, t, tn) ==
    LET at == RaisedAt(lib, doc)
    IN  IF at = "none" THEN Normalized(ExtractedRecord(doc, filename, t), tn)
        ELSE IF ExceptCatches(at) THEN Normalized(FallbackRecord(filename, tn), tn)
        ELSE Raised

PageOutcomes == {"raises", "none", "text"}
PageLists == UNION {[1..n -> PageOutcomes] : n \in 0..MaxPages}

NothingFound ==
    [energy |-> NoMatch, water |-> NoMatch, charges |-> NoMatch,
     water_cost |-> NoMatch, company |-> NoMatch]
\* what the searches find in a text
Finds ==
    {NothingFound,
     [NothingFound EXCEPT !.energy = Group(<<"5", "0", "0">>),
                          !.company = Group(<<"A", "c", "m", "e">>)],
     [NothingFound EXCEPT !.energy = HugeGroup],
     [NothingFound EXCEPT !.charges = HugeGroup, !.water = Group(<<"1", "2">>)],
     [energy |-> Group(<<"1", ",", "2", "3", "4">>), water |-> Group(<<"1", "2">>),
      charges |-> Group(<<"1", ",", "2", "3", "4", ".", "5", "0">>),
      water_cost |-> Group(<<"9", "9">>), company |-> Group(<<"A", "c", "m", "e">>)]}

Documents ==
    {[reader |-> "raises", pages |-> <<>>] @@ NothingFound}
    \cup {[reader |-> "ok", pages |-> ps] @@ NothingFound :
            ps \in {q \in PageLists : \A i \in 1..Len(q) : q[i] # "text"}}
    \cup {[reader |-> "ok", pages |-> ps] @@ f :
            ps \in {q \in PageLists : \E i \in 1..Len(q) : q[i] = "text"},
            f \in Finds}

Filenames ==
    {<<"a", "_", "B", ".", "P", "D", "F">>, <<"b", "a", "d", ".", "p", "d", "f">>,
     <<"A", "C", "C", "-", "F", "A", "L", "L", "B", "A", "C", "K">>}

InitExtract ==
    /\ clock = 0
    /\ NormIdle /\ SFIdle /\ LiveIdle /\ InsightIdle /\ LaterIdle
    /\ pdfLib \in BOOLEAN
    /\ ExtractRest

\* one call of the extractor; the clock may move on while it runs
ExtractCall(doc, filename, d) ==
    /\ exIn = NotCalled
    /\ clock + d <= MaxClock
    /\ exIn' = [doc |-> doc, filename |-> filename]
    /\ exOut' = ExtractInvoiceDataFromPdf(pdfLib, doc, filename, clock, clock + d)
    /\ clock' = clock + d
    /\ UNCHANGED <<pdfLib, restOfExtract>>

\* the caller has taken the record
ExtractDone ==
    /\ exIn # NotCalled
    /\ exIn' = NotCalled
    /\ exOut' = NotCalled
    /\ UNCHANGED <<clock, pdfLib, restOfExtract>>

NextExtract ==
    \/ \E doc \in Documents, filename \in Filenames, d \in {0, 1} :
            ExtractCall(doc, filename, d)
    \/ ExtractDone

SpecExtract == InitExtract /\ [][NextExtract]_vars

(***************************************************************************)
(* The document store as mongo_upsert_invoice uses it: update_one with an  *)
(* equality filter, {"$set": inv} and upsert=True.                         *)
(***************************************************************************)
MaxWrites == 2

\* bool(x), the test of an if statement
PyTruthy(x) ==
    CASE x.k = "none" -> FALSE
      [] x.k = "str" -> x.s # <<>>
      [] x.k = "int" -> x.v # 0
      [] x.k = "float" -> x.h # 0
      [] x.k = "bool" -> x.b
      [] OTHER -> TRUE

\* d.get(key)
DictGet(d, key) == IF HasKey(d, key) THEN d[key] ELSE None

\* _invoice_upsert_key
InvoiceUpsertKey(inv) ==
    IF PyTruthy(DictGet(inv, "tax_invoice_number"))
    THEN [key \in {"tax_invoice_number"} |-> inv["tax_invoice_number"]]
    ELSE [key \in {"filename", "invoice_date"} |-> DictGet(inv, key)]

\* a document satisfies an equality filter; null matches a missing field too
Matches(doc, filter) ==
    \A key \in DOMAIN filter :
        IF filter[key] = None THEN ~HasKey(doc, key) \/ doc[key] = None
        ELSE HasKey(doc, key) /\ doc[key] = filter[key]

\* the position of the document update_one picks: the first match, 0 if none
FirstMatch(docs, filter) ==
    IF \E i \in 1..Len(docs) : Matches(docs[i], filter)
    THEN CHOOSE i \in 1..Len(docs) :
            Matches(docs[i], filter) /\ \A j \in 1..(i - 1) : ~Matches(docs[j], filter)
    ELSE 0

\* {"$set": fields} applied to a document
SetFields(doc, fields) ==
    [key \in DOMAIN doc \cup DOMAIN fields |->
        IF key \in DOMAIN fields THEN fields[key] ELSE doc[key]]

\* where update_one(filter, {"$set": fields}, upsert=True) writes: the first
\* match, or a new document at the end
WrittenAt(docs, filter) ==
    IF FirstMatch(docs, filter) = 0 THEN Len(docs) + 1 ELSE FirstMatch(docs, filter)

\* update_one(filter, {"$set": fields}, upsert=True); an inserted document
\* starts from the fields of the filter
UpdateOne(docs, filter, fields) ==
    IF FirstMatch(docs, filter) = 0 THEN Append(docs, SetFields(filter, fields))
    ELSE [docs EXCEPT ![FirstMatch(docs, filter)] = SetFields(@, fields)]

\* mongo_upsert_invoice(inv) with a store configured and answering: the
\* documents afterwards (inv is normalized first, reading the clock at t)
MongoUpsertInvoice(docs, inv, t) ==
    CHOOSE after \in
        {UpdateOne(docs, InvoiceUpsertKey(n), n) : n \in {NormalizeInvoice(inv, t, t)}} : TRUE

Absent == [k |-> "absent"]
\* d with key set to v, unless v is Absent
WithOpt(d, key, v) == IF v = Absent THEN d ELSE DictSet(d, key, v)

\* the records written: a tax invoice number that is missing, empty or set; an
\* invoice date, a note and a created_at that are missing or set
StoreInputs ==
    {WithOpt(WithOpt(WithOpt(WithOpt(
        [key \in {"filename"} |-> PyStr(<<"f.pdf">>)],
        "tax_invoice_number", tin), "invoice_date", date), "note", note),
        "created_at", created) :
        tin \in {Absent, PyStr(<<>>), PyStr(<<"T1">>)},
        date \in {Absent, PyStr(<<"2025-01-01">>)},
        note \in {Absent, PyStr(<<"n">>)},
        created \in {Absent, PyStr(<<"2020-01-01T00:00:00Z">>)}}

InitStore ==
    /\ clock = 0
    /\ NormIdle /\ SFIdle /\ LiveIdle /\ InsightIdle /\ ExtractIdle
    /\ StoreIdle /\ AppIdle /\ ChanIdle /\ QueryIdle

\* one call of mongo_upsert_invoice, the clock having moved on by d
StoreWrite(inv, d) ==
    /\ Len(stLog) < MaxWrites
    /\ clock + d <= MaxClock
    /\ clock' = clock + d
    /\ \E n \in {NormalizeInvoice(inv, clock', clock')} :
        \E after \in {UpdateOne(store, InvoiceUpsertKey(n), n)} :
            /\ store' = after
            /\ stLog' = Append(stLog,
                    [input |-> inv,
                     fields |-> n,
                     key |-> InvoiceUpsertKey(n),
                     at |-> WrittenAt(store, InvoiceUpsertKey(n)),
                     doc |-> after[WrittenAt(store, InvoiceUpsertKey(n))]])
    /\ UNCHANGED restOfStore

NextStore == \E inv \in StoreInputs, d \in {0, 1} : StoreWrite(inv, d)

SpecStore == InitStore /\ [][NextStore]_vars

(***************************************************************************)
(* The process state and the handlers that change it: /esg/analyse,        *)
(* /api/invoice-upload, /api/invoice-bulk-upload and                       *)
(* /api/invoices/save-to-mongodb, one request at a time, each split at its *)
(* awaits, with the /ws/live-ai handler of a connected channel building    *)
(* snapshots in between.  A broadcast is one step here (its sweep is       *)
(* SpecLive's subject), the clock stands still, and every uploaded file    *)
(* holds bytes PdfReader cannot open.                                      *)
(***************************************************************************)
MaxFiles == 2
MaxRequests == 1

\* how a call of _safe_write_json may go: written, or json.dump raised after
\* open() truncated the file
WriteOutcomes == {"ok", "dump"}

\* _safe_write_json(path, data): the file afterwards; nothing is raised
SafeWriteJson(file, data, w) == IF w = "ok" THEN Json(data) ELSE Corrupt

\* list[-5:], a shorter tail
LastFive(list) == SubSeq(list, IF Len(list) > 5 THEN Len(list) - 4 ELSE 1, Len(list))

\* list[-6:]
LastSix(list) == SubSeq(list, IF Len(list) > 6 THEN Len(list) - 5 ELSE 1, Len(list))

\* a variant of the snapshot that carries five invoices at most
BuildLiveSnapshotFive(list, input, t) ==
    [timestamp |-> Time(t),
     last_esg_input |-> input,
     invoice_count |-> Len(list),
     last_invoices |-> LastFive(list)]

\* build_live_snapshot(): no await inside, so the reads are of one state
\* (last_esg_uploaded_rows, never changed by these handlers, is left out)
BuildLiveSnapshot(list, input, t) ==
    [timestamp |-> Time(t),
     last_esg_input |-> input,
     invoice_count |-> Len(list),
     last_invoices |-> LastSix(list)]

\* generate_dube_tradeport_data()
DubeTradeportData ==
    [filename |-> PyStr(<<"dube_tradeport_sample.pdf">>),
     company_name |-> PyStr(<<"Dube Tradeport">>),
     account_number |-> PyStr(<<"DTZ-2024-001">>),
     tax_invoice_number |-> PyStr(<<"INV-DTZ-2024-001">>),
     invoice_date |-> PyStr(<<"2024-01-15">>),
     due_date |-> PyStr(<<"2024-02-15">>),
     total_current_charges |-> Float(18500050),
     total_amount_due |-> Float(18500050),
     total_energy_kwh |-> Float(12500000),
     water_usage |-> Float(1250000),
     water_cost |-> Float(7500000),
     categories |-> PyList(<<PyStr(<<"Manufacturing">>), PyStr(<<"Logistics">>),
                             PyStr(<<"Industrial">>)>>),
     sixMonthHistory |-> PyList(<<
        PyDict([month_label |-> PyStr(<<"Jan 2024">>), energyKWh |-> Float(2100000),
                total_current_charges |-> Float(3100075), total_amount_due |-> Float(3100075),
                carbonTco2e |-> Float(2079), water_m3 |-> Float(210000),
                water_cost |-> Float(1260000)]),
        PyDict([month_label |-> PyStr(<<"Dec 2023">>), energyKWh |-> Float(2050000),
                total_current_charges |-> Float(3030050), total_amount_due |-> Float(3030050),
                carbonTco2e |-> Float(2030), water_m3 |-> Float(205000),
                water_cost |-> Float(1230000)]),
        PyDict([month_label |-> PyStr(<<"Nov 2023">>), energyKWh |-> Float(1980000),
                total_current_charges |-> Float(2920025), total_amount_due |-> Float(2920025),
                carbonTco2e |-> Float(1960), water_m3 |-> Float(198000),
                water_cost |-> Float(1188000)]),
        PyDict([month_label |-> PyStr(<<"Oct 2023">>), energyKWh |-> Float(2150000),
                total_current_charges |-> Float(3170080), total_amount_due |-> Float(3170080),
                carbonTco2e |-> Float(2129), water_m3 |-> Float(215000),
                water_cost |-> Float(1290000)]),
        PyDict([month_label |-> PyStr(<<"Sep 2023">>), energyKWh |-> Float(2070000),
                total_current_charges |-> Float(3050060), total_amount_due |-> Float(3050060),
                carbonTco2e |-> Float(2049), water_m3 |-> Float(207000),
                water_cost |-> Float(1242000)]),
        PyDict([month_label |-> PyStr(<<"Aug 2023">>), energyKWh |-> Float(1950000),
                total_current_charges |-> Float(2870045), total_amount_due |-> Float(2870045),
                carbonTco2e |-> Float(1931), water_m3 |-> Float(195000),
                water_cost |-> Float(1170000)])>>)]

\* bytes PdfReader raises on
NotAPdf == [reader |-> "raises", pages |-> <<>>] @@ NothingFound

\* summary = extract_invoice_data_from_pdf(content, filename), as a dict
Summary(filename, t) == ExtractInvoiceDataFromPdf(pdfLib, NotAPdf, filename, t, t).d

\* the names of the files of a batch, and of the files uploaded before startup
FileName(i) == <<"f">> \o DigitsOf(i) \o <<".pdf">>
OldName(i) == <<"o">> \o DigitsOf(i) \o <<".pdf">>
Batch(n) == [i \in 1..n |-> FileName(i)]

\* the list the lifespan hook leaves when the file on disk was missing or
\* empty, and a list of six records read back from disk
SeededList == <<NormalizeInvoice(DubeTradeportData, 0, 0)>>
LoadedList == [i \in 1..6 |-> Summary(OldName(i), 0)]

\* f"{f.filename}: {str(e)}"
ErrorEntry(filename, e) == [file |-> filename, error |-> e]

\* d["_id"] = str(d.get("_id")) on the i-th document of the collection
WithId(doc, i) == DictSet(doc, "_id", PyStr(<<"id">> \o DigitsOf(i)))

\* the bodies of /api/invoices/save-to-mongodb
SaveGood(s) == [filename |-> PyStr(<<s, ".pdf">>), tax_invoice_number |-> PyStr(<<"T", s>>)]
SaveBadRow ==
    [filename |-> PyStr(<<"bad.pdf">>), tax_invoice_number |-> PyStr(<<"T", "bad">>),
     sixMonthHistory |-> PyList(<<PyStr(<<"x">>)>>)]
SaveInputs ==
    {<<>>, <<SaveGood("a")>>, <<SaveBadRow>>, <<SaveGood("a"), SaveBadRow>>,
     <<SaveGood("a"), SaveGood("b")>>}

\* the bodies of /esg/analyse, as _model_dump gives them
ESGInputs == {[company_name |-> PyStr(<<"A">>)], [company_name |-> PyStr(<<"B">>)]}

\* the responses
Ok(success, invoices, errors) ==
    [status |-> 200, success |-> success, invoices |-> invoices, errors |-> errors]
HttpError(code) == [status |-> code, success |-> FALSE, invoices |-> <<>>, errors |-> <<>>]

InitApp ==
    /\ clock = 0
    /\ NormIdle /\ SFIdle /\ InsightIdle /\ ExtractIdle /\ StoreIdle /\ ChanIdle /\ QueryIdle
    /\ active \in {<<>>, <<1>>}
    /\ wsPc = [c \in Channels |-> IF c \in Range(active) THEN "open" ELSE "new"]
    /\ bPc = [b \in Broadcasts |-> "idle"]
    /\ bIdx = [b \in Broadcasts |-> 0]
    /\ bCur = [b \in Broadcasts |-> NoChannel]
    /\ bDead = [b \in Broadcasts |-> <<>>]
    /\ bStart = [b \in Broadcasts |-> <<>>]
    /\ bTried = [b \in Broadcasts |-> <<>>]
    /\ bGone = [b \in Broadcasts |-> {}]
    /\ bRet = [b \in Broadcasts |-> <<>>]
    /\ mongoOn \in BOOLEAN
    /\ invs \in {SeededList, LoadedList}
    /\ disk = Json(invs)
    /\ esg = [company_name |-> PyStr(<<"O">>)]
    /\ diskEsg = Json(esg)
    /\ nReq = 0 /\ rKind = "none" /\ rPc = "idle" /\ rIn = <<>> /\ rIdx = 0
    /\ rInvoices = <<>> /\ rErrors = <<>> /\ rResp = NotCalled /\ rHist = NoHist
    /\ wFailed = FALSE /\ snap = NotCalled /\ snapOf = <<>>

\* no handler is in progress
Quiet == rPc \in {"idle", "done"}

\* a request arrives
Begin(kind, input) ==
    /\ Quiet
    /\ nReq < MaxRequests
    /\ nReq' = nReq + 1
    /\ rKind' = kind
    /\ rIn' = input
    /\ rIdx' = 1
    /\ rInvoices' = <<>>
    /\ rErrors' = <<>>

\* _safe_write_json(LAST_INVOICES_JSON_PATH, last_invoice_summaries), going
\* as w says, on the list as this step leaves it
WriteInvoices(w, h) ==
    /\ disk' = SafeWriteJson(disk, invs', w)
    /\ wFailed' = (wFailed \/ w # "ok")
    /\ rHist' = [h EXCEPT !.disk = @ \/ w # "ok"]

\* the /ws/live-ai handler of a connected channel builds a snapshot (after
\* accept, or for a "refresh" or "ping"), whatever the request handler awaits
WsSnapshot ==
    /\ active # <<>>
    /\ snap' = BuildLiveSnapshot(invs, esg, clock)
    /\ snapOf' = invs
    /\ UNCHANGED <<mongoOn, invs, disk, esg, diskEsg, nReq, rKind, rPc, rIn, rIdx,
                   rInvoices, rErrors, rResp, rHist, wFailed, store>>
    /\ UNCHANGED restOfApp

\* file.read() is awaited
UploadStart(name) ==
    /\ Begin("upload", <<name>>)
    /\ rPc' = "read"
    /\ rResp' = NotCalled
    /\ rHist' = NoHist
    /\ UNCHANGED <<mongoOn, invs, disk, esg, diskEsg, wFailed, snap, snapOf, store>>
    /\ UNCHANGED restOfApp

\* file.read() returns or raises; on return the record is extracted, appended
\* and written, and update_one or push_live_update is awaited
UploadRead(ok, w) ==
    /\ rKind = "upload" /\ rPc = "read"
    /\ IF ok
       THEN /\ \E summary \in {Summary(rIn[1], clock)} :
                    /\ invs' = Append(invs, summary)
                    /\ rInvoices' = <<summary>>
            /\ WriteInvoices(w, [rHist EXCEPT !.changed = TRUE, !.pushed = FALSE])
            /\ rPc' = IF mongoOn THEN "upsert" ELSE "push"
            /\ UNCHANGED rResp
       ELSE /\ rHist' = [rHist EXCEPT !.read = {1}]
            /\ rResp' = HttpError(500)
            /\ rPc' = "done"
            /\ UNCHANGED <<invs, rInvoices, disk, wFailed>>
    /\ UNCHANGED <<mongoOn, esg, diskEsg, nReq, rKind, rIn, rIdx, rErrors,
                   snap, snapOf, store>>
    /\ UNCHANGED restOfApp

\* update_one returns or raises; the outer except turns a raise into a 500
UploadUpsert(ok) ==
    /\ rKind = "upload" /\ rPc = "upsert"
    /\ IF ok
       THEN /\ store' = MongoUpsertInvoice(store, rInvoices[1], clock)
            /\ rPc' = "push"
            /\ UNCHANGED <<rResp, rHist>>
       ELSE /\ rHist' = [rHist EXCEPT !.store = {1}]
            /\ rResp' = HttpError(500)
            /\ rPc' = "done"
            /\ UNCHANGED store
    /\ UNCHANGED <<mongoOn, invs, disk, esg, diskEsg, nReq, rKind, rIn, rIdx,
                   rInvoices, rErrors, wFailed, snap, snapOf>>
    /\ UNCHANGED restOfApp

\* the first f.read() is awaited
BulkStart(n) ==
    /\ Begin("bulk", Batch(n))
    /\ rPc' = "read"
    /\ rResp' = NotCalled
    /\ rHist' = NoHist
    /\ UNCHANGED <<mongoOn, invs, disk, esg, diskEsg, wFailed, snap, snapOf, store>>
    /\ UNCHANGED restOfApp

\* a variant of the loop that gives up the batch when a read raises
BulkNextOrAbort(w, h) ==
    IF rIdx < Len(rIn) /\ h.read = rHist.read
    THEN /\ rIdx' = rIdx + 1
         /\ rPc' = "read"
         /\ rHist' = h
         /\ UNCHANGED <<disk, wFailed>>
    ELSE /\ rPc' = "push"
         /\ WriteInvoices(w, h)
         /\ UNCHANGED rIdx

\* the loop goes on to the next file, or, the files exhausted, the list is
\* written and push_live_update is awaited
BulkNext(w, h) ==
    IF rIdx < Len(rIn)
    THEN /\ rIdx' = rIdx + 1
         /\ rPc' = "read"
         /\ rHist' = h
         /\ UNCHANGED <<disk, wFailed>>
    ELSE /\ rPc' = "push"
         /\ WriteInvoices(w, h)
         /\ UNCHANGED rIdx

\* f.read() returns or raises; on return the record is extracted and appended
\* to both lists, and update_one is awaited if a store is configured
BulkRead(ok, w) ==
    /\ rKind = "bulk" /\ rPc = "read"
    /\ IF ok
       THEN /\ \E summary \in {Summary(rIn[rIdx], clock)} :
                    /\ invs' = Append(invs, summary)
                    /\ rInvoices' = Append(rInvoices, summary)
            /\ UNCHANGED rErrors
            /\ IF mongoOn
               THEN /\ rPc' = "upsert"
                    /\ rHist' = [rHist EXCEPT !.changed = TRUE, !.pushed = FALSE]
                    /\ UNCHANGED <<rIdx, disk, wFailed>>
               ELSE BulkNext(w, [rHist EXCEPT !.changed = TRUE, !.pushed = FALSE])
       ELSE /\ rErrors' = Append(rErrors, ErrorEntry(rIn[rIdx], "read"))
            /\ UNCHANGED <<invs, rInvoices>>
            /\ BulkNext(w, [rHist EXCEPT !.read = @ \cup {rIdx}])
    /\ UNCHANGED <<mongoOn, esg, diskEsg, nReq, rKind, rIn, rResp,
                   snap, snapOf, store>>
    /\ UNCHANGED restOfApp

\* update_one returns or raises; a raise is recorded against the file
BulkUpsert(ok, w) ==
    /\ rKind = "bulk" /\ rPc = "upsert"
    /\ invs' = invs
    /\ IF ok
       THEN /\ store' = MongoUpsertInvoice(store, rInvoices[Len(rInvoices)], clock)
            /\ UNCHANGED rErrors
            /\ BulkNext(w, rHist)
       ELSE /\ rErrors' = Append(rErrors, ErrorEntry(rIn[rIdx], "upsert"))
            /\ UNCHANGED store
            /\ BulkNext(w, [rHist EXCEPT !.store = @ \cup {rIdx}])
    /\ UNCHANGED <<mongoOn, esg, diskEsg, nReq, rKind, rIn, rInvoices, rResp,
                   snap, snapOf>>
    /\ UNCHANGED restOfApp

\* the records the loop of the branch without a store appends before
\* _normalize_invoice first raises
RECURSIVE NormalizedPrefix(_, _)
NormalizedPrefix(invoices, t) ==
    IF invoices = <<>> \/ NormalizeInvoice(Head(invoices), t, t) = Raised THEN <<>>
    ELSE <<NormalizeInvoice(Head(invoices), t, t)>> \o NormalizedPrefix(Tail(invoices), t)

\* save_invoices_to_mongodb up to its first await: a 400 for an empty body;
\* with a store, the first update_one is awaited; without one, the records are
\* normalized and appended one by one, then written, and push_live_update is
\* awaited, unless _normalize_invoice raised, which the except turns into a 500
SaveStart(input, w) ==
    /\ Begin("save", input)
    /\ IF input = <<>>
       THEN /\ rPc' = "done"
            /\ rResp' = HttpError(400)
            /\ rHist' = [NoHist EXCEPT !.input = TRUE]
            /\ UNCHANGED <<invs, disk, wFailed>>
       ELSE IF mongoOn
       THEN /\ rPc' = "upsert"
            /\ rResp' = NotCalled
            /\ rHist' = NoHist
            /\ UNCHANGED <<invs, disk, wFailed>>
       ELSE \E done \in {NormalizedPrefix(input, clock)} :
            /\ invs' = invs \o done
            /\ IF Len(done) = Len(input)
               THEN /\ rPc' = "push"
                    /\ rResp' = NotCalled
                    /\ WriteInvoices(w, [NoHist EXCEPT !.changed = TRUE])
               ELSE /\ rPc' = "done"
                    /\ rResp' = HttpError(500)
                    /\ rHist' = [NoHist EXCEPT !.input = TRUE, !.changed = done # <<>>]
                    /\ UNCHANGED <<disk, wFailed>>
    /\ UNCHANGED <<mongoOn, esg, diskEsg, snap, snapOf, store>>
    /\ UNCHANGED restOfApp

\* one turn of the loop with a store: _normalize_invoice raises, or update_one
\* returns or raises; a raise is recorded (str(e) names no file); after the
\* last record find().to_list() is awaited
SaveUpsert(ok) ==
    /\ rKind = "save" /\ rPc = "upsert"
    /\ IF NormalizeInvoice(rIn[rIdx], clock, clock) = Raised
       THEN /\ rErrors' = Append(rErrors, ErrorEntry(<<>>, "normalize"))
            /\ rHist' = [rHist EXCEPT !.input = TRUE]
            /\ UNCHANGED store
       ELSE IF ok
       THEN /\ store' = MongoUpsertInvoice(store, rIn[rIdx], clock)
            /\ UNCHANGED <<rErrors, rHist>>
       ELSE /\ rErrors' = Append(rErrors, ErrorEntry(<<>>, "upsert"))
            /\ rHist' = [rHist EXCEPT !.store = @ \cup {rIdx}]
            /\ UNCHANGED store
    /\ IF rIdx < Len(rIn)
       THEN rIdx' = rIdx + 1 /\ UNCHANGED rPc
       ELSE rPc' = "find" /\ UNCHANGED rIdx
    /\ UNCHANGED <<mongoOn, invs, disk, esg, diskEsg, nReq, rKind, rIn, rInvoices,
                   rResp, wFailed, snap, snapOf>>
    /\ UNCHANGED restOfApp

\* find().to_list() returns or raises; on return the list is replaced by the
\* documents of the store and written; the handler returns either way
SaveFind(ok, w) ==
    /\ rKind = "save" /\ rPc = "find"
    /\ IF ok
       THEN /\ invs' = [i \in 1..Len(store) |-> WithId(store[i], i)]
            /\ WriteInvoices(w, [rHist EXCEPT !.changed = TRUE, !.pushed = FALSE])
       ELSE UNCHANGED <<invs, disk, wFailed, rHist>>
    /\ rResp' = Ok(rErrors = <<>>, <<>>, rErrors)
    /\ rPc' = "done"
    /\ UNCHANGED <<mongoOn, esg, diskEsg, nReq, rKind, rIn, rIdx, rInvoices, rErrors,
                   snap, snapOf, store>>
    /\ UNCHANGED restOfApp

\* analyse_esg up to its await: the last ESG input is replaced and written
AnalyseStart(input, w) ==
    /\ Begin("analyse", <<input>>)
    /\ esg' = input
    /\ diskEsg' = SafeWriteJson(diskEsg, input, w)
    /\ wFailed' = (wFailed \/ w # "ok")
    /\ rHist' = [NoHist EXCEPT !.changed = TRUE, !.disk = w # "ok"]
    /\ rPc' = "push"
    /\ rResp' = NotCalled
    /\ UNCHANGED <<mongoOn, invs, disk, snap, snapOf, store>>
    /\ UNCHANGED restOfApp

\* what a handler returns after push_live_update
Response(kind) ==
    IF kind = "bulk" THEN Ok(rErrors = <<>>, rInvoices, rErrors)
    ELSE IF kind = "upload" THEN Ok(TRUE, rInvoices, <<>>)
    ELSE Ok(TRUE, <<>>, <<>>)

\* push_live_update(): nothing without a subscriber, otherwise a snapshot is
\* built and broadcast; then the handler returns
PushReturn ==
    /\ rPc = "push"
    /\ rHist' = [rHist EXCEPT !.pushed = TRUE]
    /\ IF active = <<>>
       THEN UNCHANGED <<snap, snapOf>>
       ELSE /\ snap' = BuildLiveSnapshot(invs, esg, clock)
            /\ snapOf' = invs
    /\ rResp' = Response(rKind)
    /\ rPc' = "done"
    /\ UNCHANGED <<mongoOn, invs, disk, esg, diskEsg, nReq, rKind, rIn, rIdx,
                   rInvoices, rErrors, wFailed, store>>
    /\ UNCHANGED restOfApp

\* the file name the command-line tool is given
CliName == <<"c", "1", ".pdf">>

\* the invoice file holds a record of the command-line tool
HoldsCliRecord(file) ==
    file.k = "json" /\ \E i \in 1..Len(file.v) : file.v[i].filename = PyStr(CliName)

\* _safe_read_json(LAST_INVOICES_JSON_PATH, []) or []
ReadInvoicesOrEmpty(file) == IF file.k = "json" THEN file.v ELSE <<>>

\* scripts/extract_and_save_pdf.py, run beside the server: the record is
\* extracted, the file is read, the record appended and the file written (the
\* run is taken as one step; it is not run again while the file holds its record)
CliAppend(w) ==
    /\ ~HoldsCliRecord(disk)
    /\ \E summary \in {Summary(CliName, clock)} :
            disk' = SafeWriteJson(disk, Append(ReadInvoicesOrEmpty(disk), summary), w)
    /\ UNCHANGED <<mongoOn, invs, esg, diskEsg, nReq, rKind, rPc, rIn, rIdx,
                   rInvoices, rErrors, rResp, rHist, wFailed, snap, snapOf, store>>
    /\ UNCHANGED restOfApp

NextApp ==
    \/ WsSnapshot
    \/ \E i \in 1..MaxFiles : UploadStart(FileName(i))
    \/ \E ok \in BOOLEAN, w \in WriteOutcomes : UploadRead(ok, w)
    \/ \E ok \in BOOLEAN : UploadUpsert(ok)
    \/ \E n \in 1..MaxFiles : BulkStart(n)
    \/ \E ok \in BOOLEAN, w \in WriteOutcomes : BulkRead(ok, w)
    \/ \E ok \in BOOLEAN, w \in WriteOutcomes : BulkUpsert(ok, w)
    \/ \E input \in SaveInputs, w \in WriteOutcomes : SaveStart(input, w)
    \/ \E ok \in BOOLEAN : SaveUpsert(ok)
    \/ \E ok \in BOOLEAN, w \in WriteOutcomes : SaveFind(ok, w)
    \/ \E input \in ESGInputs, w \in WriteOutcomes : AnalyseStart(input, w)
    \/ PushReturn

SpecApp == InitApp /\ [][NextApp]_vars

(***************************************************************************)
(* The server without a document store and without subscribers, beside the *)
(* command-line tool that writes the same invoice file.                    *)
(***************************************************************************)
\* a record as another writer of the file left it: a number held as text
ForeignRecord ==
    [filename |-> PyStr(<<"x", ".pdf">>), total_energy_kwh |-> PyStr(<<"1", "2">>)]

\* the invoice file the server finds when it starts: unreadable, or the
\* records of earlier uploads, or those with a record of another writer
StartFiles ==
    {Corrupt, Json(LoadedList), Json(Append(LoadedList, ForeignRecord))}

\* last_invoice_summaries after the module is loaded and the lifespan hook
\* has run: the content of the file, or the seeded list when that is empty
StartupList(file) ==
    IF ReadInvoicesOrEmpty(file) = <<>> THEN SeededList ELSE ReadInvoicesOrEmpty(file)

InitDisk ==
    /\ clock = 0
    /\ NormIdle /\ SFIdle /\ LiveIdle /\ InsightIdle /\ ExtractIdle /\ StoreIdle /\ ChanIdle /\ QueryIdle
    /\ mongoOn = FALSE
    /\ \E file \in StartFiles :
            /\ invs = StartupList(file)
            /\ disk = IF ReadInvoicesOrEmpty(file) = <<>> THEN Json(SeededList) ELSE file
    /\ esg = [company_name |-> PyStr(<<"O">>)]
    /\ diskEsg = Json(esg)
    /\ nReq = 0 /\ rKind = "none" /\ rPc = "idle" /\ rIn = <<>> /\ rIdx = 0
    /\ rInvoices = <<>> /\ rErrors = <<>> /\ rResp = NotCalled /\ rHist = NoHist
    /\ wFailed = FALSE /\ snap = NotCalled /\ snapOf = <<>>

NextDisk ==
    \/ \E w \in WriteOutcomes : CliAppend(w)
    \/ \E i \in 1..MaxFiles : UploadStart(FileName(i))
    \/ \E ok \in BOOLEAN, w \in WriteOutcomes : UploadRead(ok, w)
    \/ \E n \in 1..MaxFiles : BulkStart(n)
    \/ \E ok \in BOOLEAN, w \in WriteOutcomes : BulkRead(ok, w)
    \/ \E input \in SaveInputs, w \in WriteOutcomes : SaveStart(input, w)
    \/ \E input \in ESGInputs, w \in WriteOutcomes : AnalyseStart(input, w)
    \/ PushReturn

SpecDisk == InitDisk /\ [][NextDisk]_vars

(***************************************************************************)
(* The /ws/live-ai handler of one connection, channel 1, step by step,     *)
(* while uploads append to the invoice list and a broadcast may evict the  *)
(* channel.  Another channel may be subscribed already.  The clock stands  *)
(* still.                                                                  *)
(***************************************************************************)
MaxMessages == 2

\* the entries of the handler's history
Accepted(count) == [ev |-> "accepted", count |-> count]
Received(msg, count) == [ev |-> "recv", msg |-> msg, count |-> count]
Sent(snapshot) == [ev |-> "sent", snapshot |-> snapshot]
RaisedInHandler == [ev |-> "raised"]

\* the text messages received so far
ReceivedCount == Cardinality({i \in 1..Len(hLog) : hLog[i].ev = "recv"})

InitChan ==
    /\ clock = 0
    /\ NormIdle /\ SFIdle /\ InsightIdle /\ ExtractIdle /\ StoreIdle /\ ChanIdle /\ QueryIdle
    /\ active \in {<<>>, <<2>>}
    /\ wsPc = [c \in Channels |-> IF c \in Range(active) THEN "receive" ELSE "new"]
    /\ bPc = [b \in Broadcasts |-> "idle"]
    /\ bIdx = [b \in Broadcasts |-> 0]
    /\ bCur = [b \in Broadcasts |-> NoChannel]
    /\ bDead = [b \in Broadcasts |-> <<>>]
    /\ bStart = [b \in Broadcasts |-> <<>>]
    /\ bTried = [b \in Broadcasts |-> <<>>]
    /\ bGone = [b \in Broadcasts |-> {}]
    /\ bRet = [b \in Broadcasts |-> <<>>]
    /\ mongoOn = FALSE
    /\ invs = SeededList
    /\ disk = Json(invs)
    /\ esg = [company_name |-> PyStr(<<"O">>)]
    /\ diskEsg = Json(esg)
    /\ nReq = 0 /\ rKind = "none" /\ rPc = "idle" /\ rIn = <<>> /\ rIdx = 0
    /\ rInvoices = <<>> /\ rErrors = <<>> /\ rResp = NotCalled /\ rHist = NoHist
    /\ wFailed = FALSE /\ snap = NotCalled /\ snapOf = <<>>

\* live_ai_manager.connect: accept() returns and the channel is appended, the
\* first snapshot is built and its send_json awaited; or accept() raises,
\* outside the handler's try
ChanAccept(ok) ==
    /\ wsPc[1] = "new"
    /\ IF ok
       THEN /\ active' = Append(active, 1)
            /\ hLog' = <<Accepted(Len(invs))>>
            /\ hSnap' = BuildLiveSnapshot(invs, esg, clock)
            /\ wsPc' = [wsPc EXCEPT ![1] = "send"]
       ELSE /\ wsPc' = [wsPc EXCEPT ![1] = "failed"]
            /\ UNCHANGED <<active, hLog, hSnap>>
    /\ UNCHANGED invs
    /\ UNCHANGED restOfChan

\* the awaited send_json returns, and receive_text is awaited; or it raises,
\* and the except clause disconnects
ChanSend(ok) ==
    /\ wsPc[1] = "send"
    /\ IF ok
       THEN /\ hLog' = Append(hLog, Sent(hSnap))
            /\ wsPc' = [wsPc EXCEPT ![1] = "receive"]
            /\ UNCHANGED active
       ELSE /\ hLog' = Append(hLog, RaisedInHandler)
            /\ wsPc' = [wsPc EXCEPT ![1] = "done"]
            /\ active' = Disconnect(active, 1)
    /\ hSnap' = NotCalled
    /\ UNCHANGED invs
    /\ UNCHANGED restOfChan

\* receive_text returns msg: for "refresh" or "ping" a snapshot is built and
\* its send_json awaited, otherwise receive_text is awaited again
ChanReceive(msg) ==
    /\ wsPc[1] = "receive"
    /\ ReceivedCount < MaxMessages
    /\ hLog' = Append(hLog, Received(msg, Len(invs)))
    /\ IF IsSnapshotRequest(msg)
       THEN /\ hSnap' = BuildLiveSnapshot(invs, esg, clock)
            /\ wsPc' = [wsPc EXCEPT ![1] = "send"]
       ELSE UNCHANGED <<hSnap, wsPc>>
    /\ UNCHANGED <<active, invs>>
    /\ UNCHANGED restOfChan

\* receive_text raises WebSocketDisconnect or another error: the except
\* clauses disconnect
ChanReceiveRaises ==
    /\ wsPc[1] = "receive"
    /\ hLog' = Append(hLog, RaisedInHandler)
    /\ wsPc' = [wsPc EXCEPT ![1] = "done"]
    /\ active' = Disconnect(active, 1)
    /\ UNCHANGED <<hSnap, invs>>
    /\ UNCHANGED restOfChan

\* an upload appends a record to last_invoice_summaries
ListGrows ==
    /\ Len(invs) <= MaxFiles
    /\ invs' = Append(invs, Summary(FileName(Len(invs)), clock))
    /\ UNCHANGED <<active, wsPc, hLog, hSnap>>
    /\ UNCHANGED restOfChan

\* a broadcast whose send_json to channel 1 raised disconnects it
BroadcastEvicts ==
    /\ 1 \in Range(active)
    /\ active' = Disconnect(active, 1)
    /\ UNCHANGED <<wsPc, hLog, hSnap, invs>>
    /\ UNCHANGED restOfChan

NextChan ==
    \/ \E ok \in BOOLEAN : ChanAccept(ok)
    \/ \E ok \in BOOLEAN : ChanSend(ok)
    \/ \E msg \in WsMessages : ChanReceive(msg)
    \/ ChanReceiveRaises
    \/ ListGrows
    \/ BroadcastEvicts

SpecChan == InitChan /\ [][NextChan]_vars

(***************************************************************************)
(* mongo_query_invoices: the branch over last_invoice_summaries and the    *)
(* branch over the collection, called on the same records with the same    *)
(* arguments.                                                              *)
(***************************************************************************)
MaxStored == 2
MaxPageNo == 2
MaxPageSize == 2

\* str(x) of a field value
StrOf(x) == IF x.k = "str" THEN x.s ELSE <<"N", "o", "n", "e">>

\* str(inv.get(key, ""))
GetStr(inv, key) == IF HasKey(inv, key) THEN StrOf(inv[key]) ELSE <<>>

\* needle in hay
Contains(hay, needle) ==
    \E i \in 0..(Len(hay) - Len(needle)) : SubSeq(hay, i + 1, i + Len(needle)) = needle

\* " ".join([...]) of the four searched fields
Haystack(inv) ==
    GetStr(inv, "company_name") \o <<" ">> \o GetStr(inv, "filename") \o <<" ">>
        \o GetStr(inv, "tax_invoice_number") \o <<" ">> \o GetStr(inv, "account_number")

\* matches(inv) of the branch without a store
MatchesInMemory(inv, q, company) ==
    /\ PyTruthy(company) =>
            Contains(Lower(GetStr(inv, "company_name")), Lower(company.s))
    /\ PyTruthy(q) => Contains(Lower(Haystack(inv)), Lower(q.s))

RECURSIVE StrLess(_, _)
\* a < b for two str (the model's sort keys are made of digits)
StrLess(a, b) ==
    IF b = <<>> THEN FALSE
    ELSE IF a = <<>> THEN TRUE
    ELSE IF Head(a) = Head(b) THEN StrLess(Tail(a), Tail(b))
    ELSE DigitVal(Head(a)) < DigitVal(Head(b))

\* str(x.get(sort_field) or "")
MemKey(inv, field) ==
    IF PyTruthy(DictGet(inv, field)) THEN StrOf(inv[field]) ELSE <<>>

RECURSIVE InsertByKey(_, _, _, _)
\* x put into a sorted list behind every item that does not come after it
InsertByKey(sorted, x, field, reverse) ==
    IF sorted = <<>> THEN <<x>>
    ELSE IF (IF reverse THEN StrLess(MemKey(Head(sorted), field), MemKey(x, field))
             ELSE StrLess(MemKey(x, field), MemKey(Head(sorted), field)))
         THEN <<x>> \o sorted
    ELSE <<Head(sorted)>> \o InsertByKey(Tail(sorted), x, field, reverse)

RECURSIVE ListSort(_, _, _)
\* items.sort(key=..., reverse=reverse): stable in both directions
ListSort(items, field, reverse) ==
    IF items = <<>> THEN <<>>
    ELSE InsertByKey(ListSort(SubSeq(items, 1, Len(items) - 1), field, reverse),
                     items[Len(items)], field, reverse)

\* seq[start:end] for 0 <= start <= end
Slice(seq, start, end) ==
    SubSeq(seq, start + 1, IF end < Len(seq) THEN end ELSE Len(seq))

\* sort.startswith(word); the parameter is held as a sequence of words
SortStartsWith(sort, word) == sort # <<>> /\ Head(sort) = word

\* the branch taken when mongo_collection is None
QueryInMemory(list, q, company, page, pageSize, sort) ==
    LET items == SelectSeq(list, LAMBDA inv : MatchesInMemory(inv, q, company))
        reverse == sort \in {<<"invoice_date", "_desc">>, <<"updated_at", "_desc">>}
        sortField == IF SortStartsWith(sort, "invoice_date") THEN "invoice_date"
                     ELSE "updated_at"
        start == (page - 1) * pageSize
    IN  [items |-> Slice(ListSort(items, sortField, reverse), start, start + pageSize),
         total |-> Len(items)]

\* {"$regex": re.escape(text), "$options": "i"} on a field: only a string
\* matches a regex
RegexMatches(doc, field, text) ==
    /\ HasKey(doc, field)
    /\ doc[field].k = "str"
    /\ Contains(Lower(doc[field].s), Lower(text))

\* the query document of the branch with a store
MatchesQuery(doc, q, company) ==
    /\ PyTruthy(company) => RegexMatches(doc, "company_name", company.s)
    /\ PyTruthy(q) =>
            \E field \in {"company_name", "filename", "tax_invoice_number",
                          "account_number"} : RegexMatches(doc, field, q.s)

\* the if/elif chain: sort_field and sort_dir
StoreSortField(sort) ==
    IF sort \in {<<"updated_at", "_desc">>, <<"updated_at", "_asc">>} THEN "updated_at"
    ELSE "invoice_date"
StoreSortDir(sort) ==
    IF sort \in {<<"invoice_date", "_asc">>, <<"updated_at", "_asc">>} THEN 1 ELSE -1

\* the store's order of two documents by a field: a missing or null field
\* comes before every string
BsonLess(a, b, field) ==
    LET x == DictGet(a, field)
        y == DictGet(b, field)
    IN  IF y.k # "str" THEN FALSE
        ELSE IF x.k # "str" THEN TRUE
        ELSE StrLess(x.s, y.s)

\* find(query).sort(field, dir): the matching documents in an order the sort
\* allows; documents with equal keys come in an order the store chooses
CursorOrders(docs, q, company, sort) ==
    LET hits == {i \in 1..Len(docs) : MatchesQuery(docs[i], q, company)}
        n == Cardinality(hits)
        field == StoreSortField(sort)
    IN  {order \in [1..n -> hits] :
            /\ \A i, j \in 1..n : i # j => order[i] # order[j]
            /\ \A i, j \in 1..n :
                  i < j => IF StoreSortDir(sort) = 1
                           THEN ~BsonLess(docs[order[j]], docs[order[i]], field)
                           ELSE ~BsonLess(docs[order[i]], docs[order[j]], field)}

\* the branch taken with a store, for one order of the cursor: count_documents,
\* skip, limit, to_list, and _id made a str
QueryStore(docs, order, page, pageSize) ==
    LET start == (page - 1) * pageSize
        picked == Slice(order, start, start + pageSize)
    IN  [items |-> [k \in 1..Len(picked) |-> WithId(docs[picked[k]], picked[k])],
         total |-> Len(order)]

\* records as the list and the collection may hold them
QueryRecA ==
    [company_name |-> PyStr(<<"P", "e">>), filename |-> PyStr(<<"r">>),
     tax_invoice_number |-> PyStr(<<"S", "1">>), account_number |-> PyStr(<<"9">>),
     invoice_date |-> PyStr(<<"1">>), updated_at |-> PyStr(<<"1">>)]
QueryRecB ==
    [company_name |-> PyStr(<<"e">>), filename |-> PyStr(<<"g">>),
     tax_invoice_number |-> PyStr(<<"S", "2">>), account_number |-> PyStr(<<"8">>),
     invoice_date |-> PyStr(<<"2">>), updated_at |-> PyStr(<<"2">>)]
QueryRecC ==
    [company_name |-> None, filename |-> PyStr(<<"r">>),
     account_number |-> None, updated_at |-> PyStr(<<"3">>)]
QueryLists == UNION {[1..n -> {QueryRecA, QueryRecB, QueryRecC}] : n \in 0..MaxStored}

\* the values of q, company and sort a request may carry
QueryTexts == {None, PyStr(<<"p">>), PyStr(<<"e", " ", "r">>), PyStr(<<"n", "o">>)}
SortValues ==
    {<<"invoice_date", "_desc">>, <<"invoice_date", "_asc">>, <<"updated_at", "_desc">>,
     <<"updated_at", "_asc">>, <<"invoice_date">>, <<"name">>}

InitQuery ==
    /\ clock = 0
    /\ NormIdle /\ SFIdle /\ LiveIdle /\ InsightIdle /\ ExtractIdle /\ StoreIdle
    /\ ChanIdle /\ QueryIdle
    /\ mongoOn = FALSE /\ invs \in QueryLists /\ disk = Json(invs)
    /\ esg = NotCalled /\ diskEsg = Json(NotCalled)
    /\ nReq = 0 /\ rKind = "none" /\ rPc = "idle" /\ rIn = <<>> /\ rIdx = 0
    /\ rInvoices = <<>> /\ rErrors = <<>> /\ rResp = NotCalled /\ rHist = NoHist
    /\ wFailed = FALSE /\ snap = NotCalled /\ snapOf = <<>>

\* GET /api/invoices/query answered once by each branch on the same records
QueryInvoices(q, company, page, pageSize, sort) ==
    /\ qArgs = NotCalled
    /\ qArgs' = [q |-> q, company |-> company, page |-> page, page_size |-> pageSize,
                 sort |-> sort]
    /\ qMem' = QueryInMemory(invs, q, company, page, pageSize, sort)
    /\ \E order \in CursorOrders(invs, q, company, sort) :
            qDb' = QueryStore(invs, order, page, pageSize)
    /\ UNCHANGED restOfQuery

\* the responses have been sent
QueryReturn ==
    /\ qArgs # NotCalled
    /\ qArgs' = NotCalled /\ qMem' = NotCalled /\ qDb' = NotCalled
    /\ UNCHANGED restOfQuery

NextQuery ==
    \/ \E q, company \in QueryTexts, page \in 1..MaxPageNo, pageSize \in 1..MaxPageSize,
          sort \in SortValues : QueryInvoices(q, company, page, pageSize, sort)
    \/ QueryReturn

SpecQuery == InitQuery /\ [][NextQuery]_vars

(***************************************************************************)
(* Claims about the live-update broadcast (SpecLive).                      *)
(***************************************************************************)
Count(seq, x) == Cardinality({i \in 1..Len(seq) : seq[i] = x})

\* the channels that were in the list from the start of call b to its return
\* (its own eviction of the dead aside)
Stayed(b) == Range(bStart[b]) \ bGone[b]

\* the channels whose send_json returned during call b
Delivered(b) == Range(bTried[b]) \ Range(bDead[b])

\* C1: when a broadcast call returns, every channel whose send_json raised
\* during it is out of active_connections, and every channel whose send_json
\* returned and that nobody else removed is still in it.
C1_FailedChannelsEvicted ==
    \A b \in Broadcasts :
        bPc[b] = "done" =>
            /\ \A c \in Range(bDead[b]) : c \notin Range(bRet[b])
            /\ \A c \in Delivered(b) \ bGone[b] : c \in Range(bRet[b])

\* C1 witness: a call returned after one send raised and another returned
C1_Witness ==
    \E b \in Broadcasts :
        /\ bPc[b] = "done"
        /\ Len(bDead[b]) = 1
        /\ Delivered(b) # {} /\ bGone[b] = {}
        /\ Delivered(b) \subseteq Range(bRet[b])

\* C2: every channel that is in the list for the whole duration of a broadcast
\* call gets exactly one send_json of that call, and these sends come in list
\* order, whatever connects or disconnects while the call is suspended.
C2_OneAttemptEachInOrder ==
    \A b \in Broadcasts :
        bPc[b] = "done" =>
            /\ \A c \in Stayed(b) : Count(bTried[b], c) = 1
            /\ SelectSeq(bTried[b], LAMBDA c : c \in Stayed(b))
                  = SelectSeq(bStart[b], LAMBDA c : c \in Stayed(b))

(***************************************************************************)
(* Claims about the invoice normalizer (SpecNorm).                         *)
(***************************************************************************)

\* C8: _normalize_invoice is idempotent on every key except updated_at: a pass
\* over the result of a pass changes no other key, adds or drops no key, and
\* does not move updated_at backwards.
C8_NormalizeIdempotent ==
    (nPass >= 2 /\ nRec # Raised) =>
        /\ DOMAIN nRec = DOMAIN nPrev
        /\ \A key \in DOMAIN nRec \ {"updated_at"} : nRec[key] = nPrev[key]
        /\ nRec["updated_at"].t >= nPrev["updated_at"].t

\* C8 witness: a second pass, made later than the first, over a record whose
\* input carried a comma-grouped numeric string and no created_at
C8_Witness ==
    /\ nPass >= 2 /\ nRec # Raised
    /\ ~HasKey(nIn, "created_at")
    /\ HasKey(nIn, "total_amount_due") /\ nIn["total_amount_due"] = GroupedStr
    /\ nRec["total_amount_due"] = Float(1200)
    /\ nRec["updated_at"].t > nPrev["updated_at"].t

\* C9: over any sequence of passes created_at keeps the value it had when it
\* was first present (the clock of the first pass when the input had none), and
\* updated_at is the clock of the latest pass.
C9_Timestamps ==
    (nPass >= 1 /\ nRec # Raised) =>
        /\ nRec["updated_at"] = Time(nLastT)
        /\ nRec["created_at"] =
              IF HasKey(nIn, "created_at") THEN nIn["created_at"] ELSE Time(nFirstT)

\* C9 witness: two passes at different times over a record that came with its
\* own created_at and updated_at
C9_Witness ==
    /\ nPass >= 2 /\ nRec # Raised
    /\ HasKey(nIn, "updated_at") /\ nIn["created_at"] = Time(0)
    /\ nFirstT > 0 /\ nLastT > nFirstT
    /\ nRec["created_at"] = Time(0) /\ nRec["updated_at"] = Time(nLastT)

(***************************************************************************)
(* Claims about the numeric normalizer (SpecSF).                           *)
(***************************************************************************)

\* what the claim says of a string: with the commas deleted, it is a run of
\* digits between surrounding whitespace, or there is no value
C10_StrResult(s) ==
    LET core == SelectSeq(s, LAMBDA ch : ch # ",")
        n == Len(core)
    IN  IF \E i, j \in 1..n :
              /\ i <= j
              /\ \A m \in 1..n : (m < i \/ m > j) => IsSpace(core[m])
              /\ \A m \in i..j : IsDigit(core[m])
        THEN Float(100 * DigitsValue(SelectSeq(core, LAMBDA ch : ~IsSpace(ch))))
        ELSE None

C10_NumberValue(x) ==
    CASE x.k = "int" -> 100 * x.v
      [] x.k = "bool" -> IF x.b THEN 100 ELSE 0
      [] OTHER -> x.h

\* the clauses of C10 that the code meets: no raise; None gives no value; a
\* string gives its parsed float or no value; any other non-number gives no value
C10_Common ==
    /\ sfOut # Raised
    /\ sfOut = None \/ IsFloat(sfOut)
    /\ IsNone(sfIn) => sfOut = None
    /\ sfIn.k \in {"int", "bool", "float"} => sfOut = Float(C10_NumberValue(sfIn))
    /\ sfIn.k = "str" => sfOut = C10_StrResult(sfIn.s)
    /\ sfIn.k = "other" => sfOut = None

\* C10, as stated: _safe_float never raises; None gives no value; every number
\* comes back as a float; a string gives its parsed float or no value; any
\* other input gives no value.
C10_AsStated ==
    sfIn # NotCalled =>
        /\ C10_Common
        /\ sfIn.k = "hugeint" => IsFloat(sfOut)

\* C10, amended: as stated, except that an int too large for a float gives no
\* value.
C10_SafeFloat ==
    sfIn # NotCalled =>
        /\ C10_Common
        /\ sfIn.k = "hugeint" => sfOut = None

\* C10 witness: the string "1,2" came back as 12.0
C10_Witness == sfIn = GroupedStr /\ sfOut = Float(1200)

(***************************************************************************)
(* Claims about the insight endpoints (SpecInsight).                       *)
(***************************************************************************)
\* the content each endpoint is to serve when it does not generate
DesignatedFallback ==
    CASE iType = "environmental" -> EnvironmentalFallback
      [] iType = "social" -> SocialFallback
      [] iType = "governance" -> GovernanceFallback
      [] OTHER -> MiniReportFallback(iPayload)

\* an empty or whitespace-only provider text
BlankReply(reply) ==
    /\ reply.k = "text"
    /\ \A i \in 1..Len(reply.text) :
            IF iType = "mini" THEN reply.text[i] = SegWs
            ELSE Strip(reply.text[i]) = <<>>

\* C3: when the client or the key is not configured, an endpoint makes no call
\* to the provider and responds with its own static fallback: the five-line
\* list of its pillar, or the heuristic mini report of the request.
C3_UnconfiguredServesFallback ==
    ~(cfgClient /\ cfgKey) =>
        /\ iCalls = 0
        /\ iReplies = <<>>
        /\ iPc # "calling"
        /\ iPc = "done" => iResp.content = DesignatedFallback

\* C3 witness: with no key set, the mini-report endpoint answered a request
\* whose renewable share is 15% with the heuristic report
C3_Witness ==
    /\ ~cfgKey
    /\ iPc = "done"
    /\ iType = "mini"
    /\ iCalls = 0
    /\ iResp.content.d.ai_recommendations[1] = PrioritiseRenewable

\* C4, as stated: when the provider is configured and every text it returned
\* is empty or whitespace-only, the endpoint responds with its fallback.
C4_BlankServesFallback ==
    (/\ iPc = "done"
     /\ cfgClient /\ cfgKey
     /\ iReplies # <<>>
     /\ \A i \in 1..Len(iReplies) : BlankReply(iReplies[i]))
        => iResp.content = DesignatedFallback

\* C5: the live flag of a response is true exactly when its content is what
\* the generator made of the provider's answers, and false exactly when its
\* content is the endpoint's fallback, the generator not having been entered
\* or having raised.
C5_LiveFlagTellsSource ==
    iPc = "done" =>
        /\ iResp.live =>
            /\ cfgClient /\ cfgKey
            /\ iCalls = Len(iReplies) /\ iCalls >= 1
            /\ iResp.content = Generate(iType, iReplies)
        /\ ~iResp.live =>
            /\ iResp.content = DesignatedFallback
            /\ ~(cfgClient /\ cfgKey) \/ Generate(iType, iReplies) = Raised

\* C5 witness: a mini report served live from the second answer, the first
\* one not having parsed
C5_Witness ==
    /\ iPc = "done"
    /\ iType = "mini"
    /\ iCalls = 2
    /\ iResp.live
    /\ iResp.content.d.ai_recommendations = <<<<"R">>, <<"S">>, <<"T">>>>

(***************************************************************************)
(* Claims about the invoice extractor (SpecExtract).                       *)
(***************************************************************************)
\* a float, infinity included
IsPyFloat(x) == x.k \in {"float", "inf"}

\* the call met a failure: no pypdf, the reader raised, or a page raised
ExtractionFailed ==
    \/ ~pdfLib
    \/ exIn.doc.reader = "raises"
    \/ \E i \in 1..Len(exIn.doc.pages) : exIn.doc.pages[i] = "raises"

FallbackAccount == <<"A", "C", "C", "-", "F", "A", "L", "L", "B", "A", "C", "K">>

\* C6: the extractor never raises: whatever the bytes and the file name, and
\* whether pypdf is missing, the reader raises or a page raises, it returns a
\* record in which each of the five numeric fields and each numeric field of
\* every history row is a float or absent.
C6_ExtractorNeverRaises ==
    exIn # NotCalled =>
        /\ exOut.k = "dict"
        /\ \A key \in NumKeys \cap DOMAIN exOut.d : IsPyFloat(exOut.d[key])
        /\ exOut.d["sixMonthHistory"].k = "list"
        /\ \A n \in 1..Len(exOut.d["sixMonthHistory"].rows) :
              LET row == exOut.d["sixMonthHistory"].rows[n]
              IN  /\ row.k = "dict"
                  /\ \A key \in HistKeys \cap DOMAIN row.d : IsPyFloat(row.d[key])

\* C6 witness: with pypdf present, the second page raised and a record with
\* float fields came back
C6_Witness ==
    /\ pdfLib
    /\ exIn # NotCalled
    /\ exIn.doc.reader = "ok"
    /\ exIn.doc.pages = <<"text", "raises">>
    /\ exOut.k = "dict"
    /\ \A key \in NumKeys : key \in DOMAIN exOut.d /\ IsPyFloat(exOut.d[key])

\* C7: when the call met a failure the record returned is the canned one
\* (company "Extracted Company", account "ACC-FALLBACK", the caller's file
\* name); a record of a successful extraction never has account "ACC-FALLBACK".
C7_CannedRecordOnFailure ==
    (exIn # NotCalled /\ exOut.k = "dict") =>
        /\ ExtractionFailed =>
            /\ exOut.d["company_name"] = PyStr(<<"Extracted Company">>)
            /\ exOut.d["account_number"] = PyStr(FallbackAccount)
            /\ exOut.d["filename"] = PyStr(exIn.filename)
        /\ ~ExtractionFailed => exOut.d["account_number"] # PyStr(FallbackAccount)

\* C7 witness: without pypdf, a file named "bad.pdf" gave the canned record
C7_Witness ==
    /\ ~pdfLib
    /\ exIn # NotCalled
    /\ exIn.filename = <<"b", "a", "d", ".", "p", "d", "f">>
    /\ exOut.k = "dict"
    /\ exOut.d["account_number"] = PyStr(FallbackAccount)
    /\ exOut.d["filename"] = PyStr(<<"b", "a", "d", ".", "p", "d", "f">>)

(***************************************************************************)
(* Claims about the document store (SpecStore).                            *)
(***************************************************************************)
\* no write between the i-th and the j-th carried the field
NotCarriedBetween(i, j, field) ==
    \A w \in (i + 1)..(j - 1) : field \notin DOMAIN stLog[w].input

\* C11, as stated: two writes with equal upsert keys update the same stored
\* document; after the later one the document holds the later write's values
\* in the fields it carries, and in every field the earlier write carried and
\* the later one omits it still holds the value it had after the earlier write.
C11_EqualKeysSameDocument ==
    \A i, j \in 1..Len(stLog) :
        (i < j /\ stLog[i].key = stLog[j].key) =>
            /\ stLog[j].at = stLog[i].at
            /\ \A field \in DOMAIN stLog[j].input :
                    stLog[j].doc[field] = stLog[j].fields[field]
            /\ \A field \in DOMAIN stLog[i].input \ DOMAIN stLog[j].input :
                    NotCarriedBetween(i, j, field) =>
                        stLog[j].doc[field] = stLog[i].doc[field]

\* C16, as stated: every list of insights a pillar endpoint returns has
\* between 1 and 7 entries, none of them empty and no two of them equal.
C16_PillarListOneToSeven ==
    (iPc = "done" /\ iType # "mini") =>
        LET rows == iResp.content.rows
        IN  /\ Len(rows) >= 1
            /\ Len(rows) <= 7
            /\ \A i \in 1..Len(rows) : rows[i] # <<>>
            /\ \A i, j \in 1..Len(rows) : i # j => rows[i] # rows[j]

\* C17, as stated: every mini-report response carries between 4 and 6
\* recommendation lines, whether generated or heuristic.
C17_MiniRecsFourToSix ==
    (iPc = "done" /\ iType = "mini") =>
        /\ Len(iResp.content.d.ai_recommendations) >= 4
        /\ Len(iResp.content.d.ai_recommendations) <= 6

\* the object the second answer is to give: its first brace-delimited
\* substring when that parses, the empty object otherwise
FirstBracedOrEmpty(reply) ==
    LET raw == RawOrEmptyObject(reply)
        opens == {i \in 1..Len(raw) : HasOpen(raw[i])}
        first == CHOOSE i \in opens : \A i2 \in opens : i <= i2
    IN  IF opens # {} /\ raw[first].seg = "obj" THEN raw[first] ELSE SegObj(EmptyDict)

\* C18, as stated: the mini-report generator parses the first answer; if that
\* does not parse it asks again and parses the first brace-delimited substring
\* of the second answer; if there is none, or it does not parse, it goes on
\* with the empty object and returns empty fields instead of raising.
C18_SecondAnswerNeverRaises ==
    (/\ iPc = "done" /\ iType = "mini"
     /\ Len(iReplies) = 2
     /\ iReplies[2].k # "error")
        => /\ iResp.live
           /\ iResp.content = MiniBuild(FirstBracedOrEmpty(iReplies[2]))

(***************************************************************************)
(* Claims about the process state and its handlers (SpecApp).              *)
(***************************************************************************)
\* the positions 1..n outside skip, in increasing order
Others(n, skip) ==
    LET Kept(i) == i \notin skip
    IN  SelectSeq([i \in 1..n |-> i], Kept)

\* the positions 1..n inside pick, in increasing order
Those(n, pick) ==
    LET Kept(i) == i \in pick
    IN  SelectSeq([i \in 1..n |-> i], Kept)

\* C12: when a bulk upload has returned, every file whose read did not raise
\* has a record in the response, in submission order, and these records are
\* the last entries of the in-memory list, in the same order; the errors list
\* names, in submission order and once each, exactly the files for which
\* something raised (the read, or the store's upsert).
C12_BulkIsolatesFailures ==
    (rKind = "bulk" /\ rPc = "done") =>
        LET read == Others(Len(rIn), rHist.read)
            failed == Those(Len(rIn), rHist.read \cup rHist.store)
            got == rResp.invoices
        IN  /\ rResp.status = 200
            /\ Len(got) = Len(read)
            /\ \A j \in 1..Len(read) : got[j].filename = PyStr(rIn[read[j]])
            /\ Len(invs) >= Len(got)
            /\ SubSeq(invs, Len(invs) - Len(got) + 1, Len(invs)) = got
            /\ Len(rResp.errors) = Len(failed)
            /\ \A j \in 1..Len(failed) : rResp.errors[j].file = rIn[failed[j]]
            /\ rResp.success = (failed = <<>>)

\* a batch whose first file could not be read and whose second gave a record
C12_Witness ==
    /\ rKind = "bulk" /\ rPc = "done"
    /\ 1 \in rHist.read
    /\ Len(rResp.invoices) = 1
    /\ rResp.invoices[1].filename = PyStr(FileName(2))

\* C13, as stated: a request of upload_invoice, bulk_upload_invoices or
\* save_invoices_to_mongodb in which nothing raised but a disk write or a call
\* of the document store reports success.
C13_PersistenceFailureNotSurfaced ==
    (/\ rPc = "done" /\ rKind \in {"upload", "bulk", "save"}
     /\ rHist.read = {} /\ ~rHist.input)
        => rResp.status = 200 /\ rResp.success

\* C15: every snapshot built is of one instant: invoice_count is the length
\* the in-memory list had when the snapshot was built, and last_invoices is
\* the last min(6, invoice_count) entries of that list, in list order.
C15_SnapshotOfOneInstant ==
    snap # NotCalled =>
        LET n == IF snap.invoice_count < 6 THEN snap.invoice_count ELSE 6
        IN  /\ snap.invoice_count = Len(snapOf)
            /\ Len(snap.last_invoices) = n
            /\ \A j \in 1..n : snap.last_invoices[j] = snapOf[Len(snapOf) - n + j]

\* a snapshot of seven invoices built while an upload, its record appended,
\* is suspended in the store's upsert
C15_Witness ==
    /\ rKind \in {"upload", "bulk"} /\ rPc = "upsert"
    /\ snap # NotCalled
    /\ snapOf = invs
    /\ snap.invoice_count = 7

\* C19, as stated: a handler that changed the process state (appended to the
\* invoice list, replaced it, or replaced the last ESG input) has called
\* push_live_update after the change by the time it returns.
C19_ChangePushedBeforeReturn ==
    (rPc = "done" /\ rHist.changed) => rHist.pushed

\* C20, as stated: when no handler is in progress and no file write has
\* failed, the invoice file holds the in-memory invoice list and the ESG file
\* holds the last ESG input.
C20_DiskEqualsMemoryAtRest ==
    (Quiet /\ ~wFailed) => disk = Json(invs) /\ diskEsg = Json(esg)

(***************************************************************************)
(* Claims about the /ws/live-ai handler (SpecChan).                        *)
(***************************************************************************)
\* the messages of WsMessages that are "refresh" or "ping" once case and
\* surrounding whitespace are ignored
AsksSnapshot ==
    {<<"p", "i", "n", "g">>, <<" ", "P", "i", "N", "G", " ">>,
     <<"r", "e", "f", "r", "e", "s", "h">>, <<"R", "E", "F", "R", "E", "S", "H", "\t">>}

\* entry i of the history is answered: the next entry is the sending of a
\* snapshot of the list as it was at entry i, or the send raised, or the send
\* is still awaited
Answered(i, count) ==
    IF i = Len(hLog) THEN wsPc[1] = "send" /\ hSnap.invoice_count = count
    ELSE \/ hLog[i + 1].ev = "raised"
         \/ /\ hLog[i + 1].ev = "sent"
            /\ hLog[i + 1].snapshot.invoice_count = count
            /\ (i + 1 < Len(hLog) => hLog[i + 2].ev # "sent")

\* C14: the handler's history starts with the accept, which is answered by one
\* snapshot; every received "refresh" or "ping" (case and surrounding
\* whitespace ignored) is answered by one snapshot of the state at its receipt;
\* any other message is answered by nothing; and a handler that ended through
\* a disconnect or an error has its channel out of the subscriber list.
C14_ChannelProtocol ==
    /\ \A i \in 1..Len(hLog) :
        /\ (hLog[i].ev = "accepted") = (i = 1)
        /\ hLog[i].ev = "accepted" => Answered(i, hLog[i].count)
        /\ (hLog[i].ev = "recv" /\ hLog[i].msg \in AsksSnapshot)
                => Answered(i, hLog[i].count)
        /\ (hLog[i].ev = "recv" /\ hLog[i].msg \notin AsksSnapshot)
                => /\ i < Len(hLog) => hLog[i + 1].ev # "sent"
                   /\ i = Len(hLog) => wsPc[1] = "receive"
        /\ hLog[i].ev = "raised" => i = Len(hLog) /\ wsPc[1] = "done"
    /\ wsPc[1] = "done" => 1 \notin Range(active)

\* a connection that got its first snapshot, then, the list having grown, a
\* larger one for " PiNG ", then nothing for "hi", and was closed
C14_Witness ==
    /\ wsPc[1] = "done"
    /\ Len(hLog) = 6
    /\ hLog[2].ev = "sent"
    /\ hLog[3].ev = "recv" /\ hLog[3].msg = <<" ", "P", "i", "N", "G", " ">>
    /\ hLog[4].ev = "sent"
    /\ hLog[4].snapshot.invoice_count > hLog[2].snapshot.invoice_count
    /\ hLog[5].ev = "recv" /\ hLog[5].msg = <<"h", "i">>
    /\ hLog[6].ev = "raised"
    /\ 1 \notin Range(active)

(***************************************************************************)
(* More claims about the live-update broadcast (SpecLive).                 *)
(***************************************************************************)
\* C25: while a broadcast call is sweeping, every channel whose send raised is
\* still in active_connections unless someone else removed it; a step of the
\* sweep that goes on to the next channel leaves the list as it is; and the
\* step that ends the sweep removes the failed channels, and only them.
C25_EvictionAfterSweep ==
    /\ [](\A b \in Broadcasts :
            bPc[b] = "sending" =>
                \A c \in Range(bDead[b]) \ bGone[b] : c \in Range(active))
    /\ [][\A b \in Broadcasts :
            (bPc[b] = "sending" /\ bTried'[b] # bTried[b]) =>
                IF bPc'[b] = "sending" THEN active' = active
                ELSE Range(active') = Range(active) \ Range(bDead'[b])]_vars

\* a sweep in progress with a failed channel still subscribed
C25_Witness ==
    \E b \in Broadcasts :
        /\ bPc[b] = "sending"
        /\ bDead[b] # <<>>
        /\ Range(bDead[b]) \subseteq Range(active)

(***************************************************************************)
(* More claims about the extractor (SpecExtract).                          *)
(***************************************************************************)
\* the year of datetime.now() as the record's own invoice_date shows it
YearOfRecord(rec) ==
    IF rec["invoice_date"] = PyStr(<<"2024-12-31">>) THEN " 2024" ELSE " 2025"

\* C26, as stated: the history of a successful extraction has exactly six
\* rows, labelled Jan, Feb, Mar, Apr, May, Jun in that order, each label
\* followed by the year of the clock at extraction time.
C26_LabelsCarryCurrentYear ==
    (exIn # NotCalled /\ exOut.k = "dict" /\ ~ExtractionFailed) =>
        /\ exOut.d["sixMonthHistory"].k = "list"
        /\ Len(exOut.d["sixMonthHistory"].rows) = 6
        /\ \A n \in 1..6 :
              exOut.d["sixMonthHistory"].rows[n].d["month_label"] =
                  PyStr(<<<<"Jan", "Feb", "Mar", "Apr", "May", "Jun">>[n],
                          YearOfRecord(exOut.d)>>)

(***************************************************************************)
(* More claims about the insight resolver (SpecInsight).                   *)
(***************************************************************************)
MarkerChars ==
    {"-", "*", ".", ")", " ", "\t", "0", "1", "2", "3", "4", "5", "6", "7", "8", "9"}

\* a line without its leading run of marker characters and without the
\* whitespace that ends it
Bare(ln) ==
    LET others == {i \in 1..Len(ln) : ln[i] \notin MarkerChars}
        inked == {i \in 1..Len(ln) : ln[i] \notin {" ", "\t"}}
        first == CHOOSE i \in others : \A i2 \in others : i <= i2
        last == CHOOSE i \in inked : \A i2 \in inked : i >= i2
    IN  IF others = {} THEN <<>> ELSE SubSeq(ln, first, last)

\* the lines of a text that are not empty once bared and that no earlier line
\* equals once bared
FirstOccurrences(text) ==
    {i \in 1..Len(text) :
        /\ Bare(text[i]) # <<>>
        /\ \A j \in 1..(i - 1) : Bare(text[j]) # Bare(text[i])}

\* C24: the list a pillar generator makes of the provider's text is the
\* text's lines, each without its leading run of marker characters (hyphen,
\* asterisk, digit, dot, closing parenthesis, whitespace) and its closing
\* whitespace, the lines left empty dropped, a line equal to an earlier one
\* dropped, the others in the order of the text; no line of the list starts
\* with a marker character. When no line is left the generator fails and the
\* endpoint serves its static list.
C24_CleanedLines ==
    (iPc = "done" /\ iType # "mini" /\ ProviderConfigured /\ iReplies[1].k = "text") =>
        LET text == iReplies[1].text
            kept == FirstOccurrences(text)
            rows == iResp.content.rows
        IN  IF kept = {} THEN ~iResp.live
            ELSE /\ iResp.live
                 /\ Len(rows) = Cardinality(kept)
                 /\ \A n \in 1..Len(rows) :
                        /\ rows[n] # <<>>
                        /\ rows[n][1] \notin MarkerChars
                        /\ \E i \in kept :
                              /\ Cardinality({j \in kept : j <= i}) = n
                              /\ rows[n] = Bare(text[i])

\* C24 witness: of the lines "- A", "A" the second is dropped as a duplicate
C24_Witness ==
    /\ iPc = "done"
    /\ iType = "social"
    /\ ProviderConfigured
    /\ iReplies = <<Content(<<<<"-", " ", "A">>, <<"A">>>>)>>
    /\ iResp.live
    /\ iResp.content.rows = <<<<"A">>>>

\* the value the payload holds under the first of the four spellings it has
RenewableValue(metrics) ==
    IF "renewableEnergy" \in DOMAIN metrics THEN metrics["renewableEnergy"]
    ELSE IF "renewable_energy" \in DOMAIN metrics THEN metrics["renewable_energy"]
    ELSE IF "renewableEnergyShare" \in DOMAIN metrics THEN metrics["renewableEnergyShare"]
    ELSE IF "renewable_energy_share" \in DOMAIN metrics
         THEN metrics["renewable_energy_share"]
    ELSE None

\* the number, in hundredths, that the text of a value without its "%"
\* denotes; None when the text is not a number
NumberOfText(v) ==
    CASE v.k = "str" ->
            LET n == ParseFloat(SelectSeq(v.s, LAMBDA ch : ch # "%"))
            IN  IF n = Raised THEN None ELSE n
      [] v.k = "int" -> Float(100 * v.v)
      [] v.k = "float" -> v
      [] OTHER -> None

\* text is number h (in hundredths) written with one decimal
OneDecimalOf(text, h) ==
    /\ DotAt(text) = Len(text) - 1
    /\ ParseFloat(text) # Raised
    /\ ParseFloat(text).h % 10 = 0
    /\ ParseFloat(text).h - h \in -5..5

\* C23: the heuristic mini report always comes back; when the value found
\* under the four spellings (the first of them the mapping has) denotes a number
\* below 20, the first recommendation is the one to prioritise renewables and
\* performance_vs_benchmark ends with that number to one decimal and "%";
\* when there is no value, or it is 20 or more, or it is not a number, the
\* report is the one of the same payload without metrics.
C23_HeuristicMiniReport ==
    (iPc = "done" /\ iType = "mini" /\ ~iResp.live) =>
        LET n == NumberOfText(RenewableValue(iPayload.metrics))
            out == iResp.content
            perf == out.d.performance_vs_benchmark
        IN  /\ out.k = "dict"
            /\ IF n # None /\ n.h < 2000
               THEN /\ out.d.ai_recommendations[1] =
                            <<"Prioritise increasing renewable share">>
                    /\ Len(out.d.ai_recommendations) = 5
                    /\ perf[Len(perf)] = "%"
                    /\ OneDecimalOf(SubSeq(perf, 2, Len(perf) - 1), n.h)
               ELSE /\ out = MiniReportFallback([iPayload EXCEPT !.metrics = EmptyDict])
                    /\ Len(out.d.ai_recommendations) = 4
                    /\ out.d.performance_vs_benchmark =
                            <<"Performance vs benchmark cannot be precisely assessed">>

\* C23 witness: "15%" under renewableEnergy gave "(current: 15.0%"
C23_Witness ==
    /\ iPc = "done"
    /\ iType = "mini"
    /\ ~iResp.live
    /\ iPayload.metrics = [key \in {"renewableEnergy"} |-> PyStr(<<"1", "5", "%">>)]
    /\ iResp.content.d.performance_vs_benchmark =
          <<"Renewable share appears below a 20% threshold (current:",
            "1", "5", ".", "0", "%">>
    /\ iResp.content.d.ai_recommendations[1] = <<"Prioritise increasing renewable share">>

(***************************************************************************)
(* More claims about the request handlers (SpecApp, SpecDisk).             *)
(***************************************************************************)
\* C27, as stated: when a bulk upload has returned, every file has either one
\* record in invoices or one entry in errors, never both and never neither, so
\* that uploaded_count plus the number of errors is the number of files, also
\* when the store's upsert failed for a file.
C27_EachFileAccountedOnce ==
    (rKind = "bulk" /\ rPc = "done") =>
        /\ Len(rResp.invoices) + Len(rResp.errors) = Len(rIn)
        /\ \A i \in 1..Len(rIn) :
              LET recs == {j \in 1..Len(rResp.invoices) :
                              rResp.invoices[j].filename = PyStr(rIn[i])}
                  errs == {j \in 1..Len(rResp.errors) : rResp.errors[j].file = rIn[i]}
              IN  Cardinality(recs) + Cardinality(errs) = 1

\* C28, as stated: when upload_invoice answers 500 the handler has changed
\* neither the in-memory invoice list nor the invoice file.
C28_FailedUploadChangesNothing ==
    (rKind = "upload" /\ rPc = "done" /\ rResp = HttpError(500)) =>
        /\ ~rHist.changed
        /\ ~rHist.disk

\* C29, as stated: with a store configured, when an upload or a bulk upload
\* in which nothing raised has returned, the records it appended have upsert
\* keys that differ from one another and each of them has a stored document of
\* its own.
C29_OneDocumentPerUpload ==
    (/\ mongoOn /\ rPc = "done" /\ rKind \in {"upload", "bulk"}
     /\ rResp.status = 200 /\ rResp.success) =>
        LET recs == rResp.invoices
            docs == {k \in 1..Len(store) :
                        \E i \in 1..Len(recs) : Matches(store[k], InvoiceUpsertKey(recs[i]))}
        IN  /\ \A i, j \in 1..Len(recs) :
                    i # j => InvoiceUpsertKey(recs[i]) # InvoiceUpsertKey(recs[j])
            /\ Cardinality(docs) = Len(recs)

C22_ListRecordsNumeric ==
    \A i \in 1..Len(invs) :
        \A key \in {"total_current_charges", "total_amount_due", "total_energy_kwh",
                    "water_usage", "water_cost"} \cap DOMAIN invs[i] :
            invs[i][key].k \in {"float", "inf", "none"}

(***************************************************************************)
(* Claims about mongo_query_invoices (SpecQuery).                          *)
(***************************************************************************)
\* a document without its _id
WithoutId(doc) == [key \in DOMAIN doc \ {"_id"} |-> doc[key]]

\* C21, as stated: on the same records and for the same q, company, page,
\* page_size and sort the two branches return the same total and the same
\* items (the _id the store adds aside) in the same order.
C21_BranchesAgree ==
    qArgs # NotCalled =>
        /\ qMem.total = qDb.total
        /\ Len(qMem.items) = Len(qDb.items)
        /\ \A n \in 1..Len(qMem.items) :
              n <= Len(qDb.items) => qMem.items[n] = WithoutId(qDb.items[n])

====
